---- MODULE Spec2Model ----
(***************************************************************************)
(* Faff-time analysis of a decoded FIT activity (src/src/main.ts).         *)
(*                                                                         *)
(* The analysis functions are synchronous and read two inputs besides      *)
(* their arguments: the decoded record/session arrays and the value of the *)
(* gap-threshold <select> element.  Each is modelled as an operator that   *)
(* computes what the TypeScript computes; the actions call them on inputs  *)
(* drawn from bounded sets and store the call and its result.              *)
(***************************************************************************)
EXTENDS Integers, Sequences, FiniteSets, TLC

VARIABLES
    records,                      \* fitData.recordMesgs handed to the analysis
    sessions,                     \* fitData.sessionMesgs
    selectedRanges,               \* array of selected TimeRange tags
    timestampGapThresholdSelect,  \* the <select> element: null or its value
    call,                         \* the function invoked last, with its scalar arguments
    ret,                          \* what that invocation returned (or threw)
    frame,                        \* the locals of findSlowPeriodsWithRanges while it is stepped:
                                  \* pc, i (1-based), currentSlowSequence, slowPeriods
    currentFitData,               \* global: the decoded messages stored for reanalysis, or null
    currentFileName,              \* global: the name stored with them, or null
    activityMap,                  \* global: the Leaflet map with its route and overlays, or null
    currentSlowPeriods,           \* global: the periods kept for the map overlay, or null
    fileInput,                    \* the file chosen in the file input, or null
    showPeriodsOnMapCheckbox,     \* checked or not
    activitySummary,              \* content of #activitySummary, or null while empty
    slowPeriodData,               \* content of #slowPeriodData with its mini map elements, or null
    activityDataElement,          \* the message shown in the activity data element
    timeouts,                     \* callbacks scheduled by setTimeout(..., 100), oldest first
    pending                       \* async handlers suspended at an await

pageVars ==
    <<currentFitData, currentFileName, activityMap, currentSlowPeriods, fileInput,
      showPeriodsOnMapCheckbox, activitySummary, slowPeriodData, activityDataElement,
      timeouts, pending>>

vars ==
    <<records, sessions, selectedRanges, timestampGapThresholdSelect, call, frame,
      pageVars, ret>>

----------------------------------------------------------------------------
(* JavaScript values.  Every scalar is a tagged record so that values of   *)
(* different JavaScript types can be compared.  A number is the exact      *)
(* rational v/d (d > 0); a Date carries its epoch milliseconds in v; a     *)
(* string is the decimal numeral of v, or the empty string.                *)

undefined == [t |-> "undefined", v |-> 0, d |-> 1]
null == [t |-> "null", v |-> 0, d |-> 1]
NaN == [t |-> "NaN", v |-> 0, d |-> 1]
Num(n) == [t |-> "number", v |-> n, d |-> 1]
Rat(n, m) == [t |-> "number", v |-> n, d |-> m]
DateOf(ms) == [t |-> "Date", v |-> ms, d |-> 1]
Bool(b) == [t |-> "boolean", v |-> IF b THEN 1 ELSE 0, d |-> 1]
Str(n) == [t |-> "string", v |-> n, d |-> 1]
EmptyStr == [t |-> "emptystring", v |-> 0, d |-> 1]

\* ToBoolean: undefined, null, NaN, 0, "" and false are falsy; objects (Date) are truthy
Truthy(x) ==
    CASE x.t = "Date" -> TRUE
      [] x.t = "string" -> TRUE
      [] x.t = "number" -> x.v # 0
      [] x.t = "boolean" -> x.v = 1
      [] OTHER -> FALSE

\* a || b
OrElse(a, b) == IF Truthy(a) THEN a ELSE b

\* ToNumber, as applied by the arithmetic and relational operators
ToNumber(x) ==
    CASE x.t = "number" -> x
      [] x.t = "Date" -> Num(x.v)
      [] x.t = "null" -> Num(0)
      [] x.t = "boolean" -> Num(x.v)
      [] x.t = "string" -> Num(x.v)
      [] x.t = "emptystring" -> Num(0)
      [] OTHER -> NaN

IsNum(x) == x.t = "number"

\* a - b
Minus(a, b) ==
    LET x == ToNumber(a)
        y == ToNumber(b)
    IN  IF IsNum(x) /\ IsNum(y)
        THEN [t |-> "number", v |-> x.v * y.d - y.v * x.d, d |-> x.d * y.d]
        ELSE NaN

\* a * b
Mul(a, b) ==
    LET x == ToNumber(a)
        y == ToNumber(b)
    IN  IF IsNum(x) /\ IsNum(y)
        THEN [t |-> "number", v |-> x.v * y.v, d |-> x.d * y.d]
        ELSE NaN

\* a / k for a positive integer literal k
DivBy(a, k) ==
    LET x == ToNumber(a)
    IN  IF IsNum(x) THEN [t |-> "number", v |-> x.v, d |-> x.d * k] ELSE NaN

\* a > b, a >= b, a < b: false as soon as one side is NaN
Gt(a, b) ==
    LET x == ToNumber(a)
        y == ToNumber(b)
    IN  IsNum(x) /\ IsNum(y) /\ x.v * y.d > y.v * x.d

Ge(a, b) ==
    LET x == ToNumber(a)
        y == ToNumber(b)
    IN  IsNum(x) /\ IsNum(y) /\ x.v * y.d >= y.v * x.d

Lt(a, b) ==
    LET x == ToNumber(a)
        y == ToNumber(b)
    IN  IsNum(x) /\ IsNum(y) /\ x.v * y.d < y.v * x.d

\* Math.round: the nearest integer, halves towards +Infinity
MathRound(a) ==
    LET x == ToNumber(a)
    IN  IF IsNum(x) THEN Num((2 * x.v + x.d) \div (2 * x.d)) ELSE NaN

\* parseInt of a select value
ParseInt(s) == IF s.t = "string" THEN Num(s.v) ELSE NaN

----------------------------------------------------------------------------
(* Program constants                                                       *)

TimeRanges == <<"2to5", "5to10", "10to30", "30to60", "1to2hours", "over2hours">>

SPEED_THRESHOLD == Rat(3, 4)

\* 5 * 60 * 1000
DefaultGapThreshold == 300000

\* 1000 * 60
MsPerMinute == 60000

MinutesPerHour == 60

\* 180 / Math.pow(2, 31), reduced to lowest terms (45 / 2^29)
SemicircleToDegrees == Rat(45, 536870912)

----------------------------------------------------------------------------
(* Range classifier                                                        *)

\* variant of matchesTimeRange whose hour ranges start above the full hour
matchesTimeRange_HoursExclusive(range, durationMinutes, durationHours) ==
    CASE range = "2to5" -> Ge(durationMinutes, Num(2)) /\ Lt(durationMinutes, Num(5))
      [] range = "5to10" -> Ge(durationMinutes, Num(5)) /\ Lt(durationMinutes, Num(10))
      [] range = "10to30" -> Ge(durationMinutes, Num(10)) /\ Lt(durationMinutes, Num(30))
      [] range = "30to60" -> Ge(durationMinutes, Num(30)) /\ Lt(durationMinutes, Num(60))
      [] range = "1to2hours" -> Gt(durationHours, Num(1)) /\ Lt(durationHours, Num(2))
      [] range = "over2hours" -> Gt(durationHours, Num(2))
      [] OTHER -> FALSE

\* variant of matchesTimeRange whose upper bounds are inclusive
matchesTimeRange_UpperInclusive(range, durationMinutes, durationHours) ==
    CASE range = "2to5" -> Ge(durationMinutes, Num(2)) /\ ~Gt(durationMinutes, Num(5))
      [] range = "5to10" -> Ge(durationMinutes, Num(5)) /\ ~Gt(durationMinutes, Num(10))
      [] range = "10to30" -> Ge(durationMinutes, Num(10)) /\ ~Gt(durationMinutes, Num(30))
      [] range = "30to60" -> Ge(durationMinutes, Num(30)) /\ ~Gt(durationMinutes, Num(60))
      [] range = "1to2hours" -> Ge(durationHours, Num(1)) /\ ~Gt(durationHours, Num(2))
      [] range = "over2hours" -> Ge(durationHours, Num(2))
      [] OTHER -> FALSE

matchesTimeRange(range, durationMinutes, durationHours) ==
    CASE range = "2to5" -> Ge(durationMinutes, Num(2)) /\ Lt(durationMinutes, Num(5))
      [] range = "5to10" -> Ge(durationMinutes, Num(5)) /\ Lt(durationMinutes, Num(10))
      [] range = "10to30" -> Ge(durationMinutes, Num(10)) /\ Lt(durationMinutes, Num(30))
      [] range = "30to60" -> Ge(durationMinutes, Num(30)) /\ Lt(durationMinutes, Num(60))
      [] range = "1to2hours" -> Ge(durationHours, Num(1)) /\ Lt(durationHours, Num(2))
      [] range = "over2hours" -> Ge(durationHours, Num(2))
      [] OTHER -> FALSE

\* selectedRanges.some(range => matchesTimeRange(range, minutes, hours))
SomeRangeMatches(ranges, durationMinutes, durationHours) ==
    \E k \in 1..Len(ranges) : matchesTimeRange(ranges[k], durationMinutes, durationHours)

----------------------------------------------------------------------------
(* Coordinate conversion                                                   *)

\* variant of HasGps that accepts every coordinate other than undefined and null
HasGps_ZeroIsPosition(record) ==
    /\ record.positionLat \notin {undefined, null}
    /\ record.positionLong \notin {undefined, null}

\* record.positionLat && record.positionLong
HasGps(record) == Truthy(record.positionLat) /\ Truthy(record.positionLong)

\* the pair [latitude, longitude] in decimal degrees
GpsPoint(record) ==
    [lat |-> Mul(record.positionLat, SemicircleToDegrees),
     lng |-> Mul(record.positionLong, SemicircleToDegrees)]

RECURSIVE convertGpsCoordinates(_)
convertGpsCoordinates(recs) ==
    IF recs = <<>> THEN <<>>
    ELSE (IF HasGps(Head(recs)) THEN <<GpsPoint(Head(recs))>> ELSE <<>>)
         \o convertGpsCoordinates(Tail(recs))

----------------------------------------------------------------------------
(* Gap detector                                                            *)

\* timestampGapThresholdSelect && timestampGapThresholdSelect.value ?
\*     parseInt(timestampGapThresholdSelect.value) : 5 * 60 * 1000
UiGapThreshold ==
    IF timestampGapThresholdSelect # null /\ Truthy(timestampGapThresholdSelect)
    THEN ParseInt(timestampGapThresholdSelect)
    ELSE Num(DefaultGapThreshold)

\* threshold || (UI setting or default)
EffectiveGapThreshold(threshold) == OrElse(threshold, UiGapThreshold)

\* variant of GapOf that attaches GPS points only when both records have one
GapOf_GpsBothOrNone(previousRecord, currentRecord) ==
    LET timeDifference == Minus(currentRecord.timestamp, previousRecord.timestamp)
        gapDurationMinutes == MathRound(DivBy(timeDifference, MsPerMinute))
        both == HasGps(previousRecord) /\ HasGps(currentRecord)
    IN  [startTime |-> previousRecord.timestamp,
         endTime |-> currentRecord.timestamp,
         gapDuration |-> timeDifference,
         gapDurationMinutes |-> gapDurationMinutes,
         gapDurationHours |-> DivBy(gapDurationMinutes, MinutesPerHour),
         startDistance |-> OrElse(previousRecord.distance, Num(0)),
         endDistance |-> OrElse(currentRecord.distance, Num(0)),
         startGpsPoint |-> IF both THEN GpsPoint(previousRecord) ELSE null,
         endGpsPoint |-> IF both THEN GpsPoint(currentRecord) ELSE null]

\* the object pushed for the pair (previousRecord, currentRecord)
GapOf(previousRecord, currentRecord) ==
    LET timeDifference == Minus(currentRecord.timestamp, previousRecord.timestamp)
        gapDurationMinutes == MathRound(DivBy(timeDifference, MsPerMinute))
    IN  [startTime |-> previousRecord.timestamp,
         endTime |-> currentRecord.timestamp,
         gapDuration |-> timeDifference,
         gapDurationMinutes |-> gapDurationMinutes,
         gapDurationHours |-> DivBy(gapDurationMinutes, MinutesPerHour),
         startDistance |-> OrElse(previousRecord.distance, Num(0)),
         endDistance |-> OrElse(currentRecord.distance, Num(0)),
         startGpsPoint |-> IF HasGps(previousRecord)
                           THEN GpsPoint(previousRecord) ELSE null,
         endGpsPoint |-> IF HasGps(currentRecord)
                         THEN GpsPoint(currentRecord) ELSE null]

\* variant of GapsAt that also reports a difference equal to the threshold
GapsAt_Inclusive(recs, gapThreshold, i) ==
    LET previousRecord == recs[i - 1]
        currentRecord == recs[i]
    IN  IF ~Truthy(previousRecord.timestamp) \/ ~Truthy(currentRecord.timestamp)
        THEN <<>>
        ELSE IF Ge(Minus(currentRecord.timestamp, previousRecord.timestamp), gapThreshold)
             THEN <<GapOf(previousRecord, currentRecord)>>
             ELSE <<>>

\* variant of GapsAt without the test for missing timestamps
GapsAt_NoTimestampCheck(recs, gapThreshold, i) ==
    LET previousRecord == recs[i - 1]
        currentRecord == recs[i]
    IN  IF Gt(Minus(currentRecord.timestamp, previousRecord.timestamp), gapThreshold)
        THEN <<GapOf(previousRecord, currentRecord)>>
        ELSE <<>>

\* one iteration of the pair loop: the gaps pushed for index i (1-based, i >= 2)
GapsAt(recs, gapThreshold, i) ==
    LET previousRecord == recs[i - 1]
        currentRecord == recs[i]
    IN  IF ~Truthy(previousRecord.timestamp) \/ ~Truthy(currentRecord.timestamp)
        THEN <<>>
        ELSE IF Gt(Minus(currentRecord.timestamp, previousRecord.timestamp), gapThreshold)
             THEN <<GapOf(previousRecord, currentRecord)>>
             ELSE <<>>

RECURSIVE GapScan(_, _, _)
GapScan(recs, gapThreshold, i) ==
    IF i > Len(recs) THEN <<>>
    ELSE GapsAt(recs, gapThreshold, i) \o GapScan(recs, gapThreshold, i + 1)

findTimestampGaps(recs, threshold) ==
    GapScan(recs, EffectiveGapThreshold(threshold), 2)

----------------------------------------------------------------------------
(* Run finaliser                                                           *)

\* variant of processSlowSequence that skips the range check
processSlowSequence_Unfiltered(currentSlowSequence, ranges) ==
    IF Len(currentSlowSequence) = 0 THEN null
    ELSE
      LET startRecord == currentSlowSequence[1]
          endRecord == currentSlowSequence[Len(currentSlowSequence)]
          startDistance == OrElse(startRecord.distance, Num(0))
      IN  [startTime |-> startRecord.timestamp,
           endTime |-> endRecord.timestamp,
           recordCount |-> Len(currentSlowSequence),
           startDistance |-> startDistance,
           endDistance |-> OrElse(endRecord.distance, startDistance),
           gpsPoints |-> convertGpsCoordinates(currentSlowSequence),
           isGap |-> undefined,
           gapData |-> undefined]

\* null when the run is empty or matches no selected range, the period otherwise;
\* reading isGap or gapData of a slow period yields undefined
processSlowSequence(currentSlowSequence, ranges) ==
    IF Len(currentSlowSequence) = 0 THEN null
    ELSE
      LET startRecord == currentSlowSequence[1]
          endRecord == currentSlowSequence[Len(currentSlowSequence)]
          durationMs == Minus(endRecord.timestamp, startRecord.timestamp)
          durationMinutes == DivBy(durationMs, MsPerMinute)
          durationHours == DivBy(durationMinutes, MinutesPerHour)
          startDistance == OrElse(startRecord.distance, Num(0))
      IN  IF SomeRangeMatches(ranges, durationMinutes, durationHours)
          THEN [startTime |-> startRecord.timestamp,
                endTime |-> endRecord.timestamp,
                recordCount |-> Len(currentSlowSequence),
                startDistance |-> startDistance,
                endDistance |-> OrElse(endRecord.distance, startDistance),
                gpsPoints |-> convertGpsCoordinates(currentSlowSequence),
                isGap |-> undefined,
                gapData |-> undefined]
          ELSE null

----------------------------------------------------------------------------
(* Slow-run segmenter and period merger                                    *)

\* variant of EffectiveSpeed that takes enhancedSpeed whenever it is present, 0 included
EffectiveSpeed_PresentEnhancedWins(record) ==
    IF record.enhancedSpeed \notin {undefined, null}
    THEN record.enhancedSpeed
    ELSE OrElse(record.speed, Num(0))

\* record.enhancedSpeed || record.speed || 0
EffectiveSpeed(record) == OrElse(OrElse(record.enhancedSpeed, record.speed), Num(0))

IsSlow(record) == Lt(EffectiveSpeed(record), SPEED_THRESHOLD)

\* if (slowPeriod) { slowPeriods.push(slowPeriod); }
PushIfPeriod(slowPeriods, slowPeriod) ==
    IF slowPeriod = null THEN slowPeriods ELSE Append(slowPeriods, slowPeriod)

\* variant of SlowStep without the gap test: every slow record joins the run
SlowStep_NoGapTest(st, record, ranges) ==
    IF IsSlow(record)
    THEN [slowPeriods |-> st.slowPeriods,
          currentSlowSequence |-> Append(st.currentSlowSequence, record)]
    ELSE [slowPeriods |->
              PushIfPeriod(st.slowPeriods,
                           processSlowSequence(st.currentSlowSequence, ranges)),
          currentSlowSequence |-> <<>>]

\* variant of SlowStep in which a fast record does not end the run
SlowStep_FastRecordIgnored(st, record, ranges) ==
    IF IsSlow(record)
    THEN IF Len(st.currentSlowSequence) > 0
         THEN LET previousRecord == st.currentSlowSequence[Len(st.currentSlowSequence)]
                  timeDifference == Minus(record.timestamp, previousRecord.timestamp)
              IN  IF Gt(timeDifference, UiGapThreshold)
                  THEN [slowPeriods |->
                            PushIfPeriod(st.slowPeriods,
                                         processSlowSequence(st.currentSlowSequence, ranges)),
                        currentSlowSequence |-> <<record>>]
                  ELSE [slowPeriods |-> st.slowPeriods,
                        currentSlowSequence |-> Append(st.currentSlowSequence, record)]
         ELSE [slowPeriods |-> st.slowPeriods,
               currentSlowSequence |-> Append(st.currentSlowSequence, record)]
    ELSE [slowPeriods |-> st.slowPeriods,
          currentSlowSequence |-> st.currentSlowSequence]

\* variant of SlowStep that starts an empty run after a gap, leaving out the
\* record that revealed the gap
SlowStep_EmptyRunAfterGap(st, record, ranges) ==
    IF IsSlow(record)
    THEN IF Len(st.currentSlowSequence) > 0
         THEN LET previousRecord == st.currentSlowSequence[Len(st.currentSlowSequence)]
                  timeDifference == Minus(record.timestamp, previousRecord.timestamp)
              IN  IF Gt(timeDifference, UiGapThreshold)
                  THEN [slowPeriods |->
                            PushIfPeriod(st.slowPeriods,
                                         processSlowSequence(st.currentSlowSequence, ranges)),
                        currentSlowSequence |-> <<>>]
                  ELSE [slowPeriods |-> st.slowPeriods,
                        currentSlowSequence |-> Append(st.currentSlowSequence, record)]
         ELSE [slowPeriods |-> st.slowPeriods,
               currentSlowSequence |-> Append(st.currentSlowSequence, record)]
    ELSE [slowPeriods |->
              PushIfPeriod(st.slowPeriods,
                           processSlowSequence(st.currentSlowSequence, ranges)),
          currentSlowSequence |-> <<>>]

\* one iteration of the record loop on the loop state st
SlowStep(st, record, ranges) ==
    IF IsSlow(record)
    THEN IF Len(st.currentSlowSequence) > 0
         THEN LET previousRecord == st.currentSlowSequence[Len(st.currentSlowSequence)]
                  timeDifference == Minus(record.timestamp, previousRecord.timestamp)
              IN  IF Gt(timeDifference, UiGapThreshold)
                  THEN [slowPeriods |->
                            PushIfPeriod(st.slowPeriods,
                                         processSlowSequence(st.currentSlowSequence, ranges)),
                        currentSlowSequence |-> <<record>>]
                  ELSE [slowPeriods |-> st.slowPeriods,
                        currentSlowSequence |-> Append(st.currentSlowSequence, record)]
         ELSE [slowPeriods |-> st.slowPeriods,
               currentSlowSequence |-> Append(st.currentSlowSequence, record)]
    ELSE [slowPeriods |->
              PushIfPeriod(st.slowPeriods,
                           processSlowSequence(st.currentSlowSequence, ranges)),
          currentSlowSequence |-> <<>>]

\* the loop state after records 1..i
RECURSIVE SlowScan(_, _, _)
SlowScan(recs, ranges, i) ==
    IF i = 0 THEN [slowPeriods |-> <<>>, currentSlowSequence |-> <<>>]
    ELSE SlowStep(SlowScan(recs, ranges, i - 1), recs[i], ranges)

\* the slow periods after the loop and the flush of the trailing run
SlowPhase(recs, ranges) ==
    LET st == SlowScan(recs, ranges, Len(recs))
    IN  PushIfPeriod(st.slowPeriods, processSlowSequence(st.currentSlowSequence, ranges))

\* variant of GapAsPeriod that keeps GPS points only when both ends have one
GapAsPeriod_PointsOnlyInPairs(gap) ==
    [startTime |-> gap.startTime,
     endTime |-> gap.endTime,
     recordCount |-> 0,
     startDistance |-> gap.startDistance,
     endDistance |-> gap.endDistance,
     gpsPoints |-> IF gap.startGpsPoint # null /\ gap.endGpsPoint # null
                   THEN <<gap.startGpsPoint, gap.endGpsPoint>>
                   ELSE <<>>,
     isGap |-> Bool(TRUE),
     gapData |-> gap]

\* variant of GapAsPeriod that counts the two records flanking the gap
GapAsPeriod_CountsFlankingRecords(gap) ==
    [startTime |-> gap.startTime,
     endTime |-> gap.endTime,
     recordCount |-> 2,
     startDistance |-> gap.startDistance,
     endDistance |-> gap.endDistance,
     gpsPoints |-> IF gap.startGpsPoint # null /\ gap.endGpsPoint # null
                   THEN <<gap.startGpsPoint, gap.endGpsPoint>>
                   ELSE IF gap.startGpsPoint # null THEN <<gap.startGpsPoint>>
                   ELSE IF gap.endGpsPoint # null THEN <<gap.endGpsPoint>>
                   ELSE <<>>,
     isGap |-> Bool(TRUE),
     gapData |-> gap]

\* gapAsPeriod
GapAsPeriod(gap) ==
    [startTime |-> gap.startTime,
     endTime |-> gap.endTime,
     recordCount |-> 0,
     startDistance |-> gap.startDistance,
     endDistance |-> gap.endDistance,
     gpsPoints |-> IF gap.startGpsPoint # null /\ gap.endGpsPoint # null
                   THEN <<gap.startGpsPoint, gap.endGpsPoint>>
                   ELSE IF gap.startGpsPoint # null THEN <<gap.startGpsPoint>>
                   ELSE IF gap.endGpsPoint # null THEN <<gap.endGpsPoint>>
                   ELSE <<>>,
     isGap |-> Bool(TRUE),
     gapData |-> gap]

\* variant of GapPhase that pushes every gap, whatever its duration
RECURSIVE GapPhase_Unfiltered(_, _, _)
GapPhase_Unfiltered(slowPeriods, gaps, ranges) ==
    IF gaps = <<>> THEN slowPeriods
    ELSE GapPhase_Unfiltered(Append(slowPeriods, GapAsPeriod(Head(gaps))),
                             Tail(gaps), ranges)

\* variant of GapPhase that assigns a one-element list where the code pushes
RECURSIVE GapPhase_Assigns(_, _, _)
GapPhase_Assigns(slowPeriods, gaps, ranges) ==
    IF gaps = <<>> THEN slowPeriods
    ELSE LET gap == Head(gaps)
             pushed == IF SomeRangeMatches(ranges, gap.gapDurationMinutes,
                                           gap.gapDurationHours)
                       THEN <<GapAsPeriod(gap)>>
                       ELSE slowPeriods
         IN  GapPhase_Assigns(pushed, Tail(gaps), ranges)

\* timestampGaps.forEach(...): slowPeriods after the gaps that match a range are pushed
RECURSIVE GapPhase(_, _, _)
GapPhase(slowPeriods, gaps, ranges) ==
    IF gaps = <<>> THEN slowPeriods
    ELSE LET gap == Head(gaps)
             pushed == IF SomeRangeMatches(ranges, gap.gapDurationMinutes,
                                           gap.gapDurationHours)
                       THEN Append(slowPeriods, GapAsPeriod(gap))
                       ELSE slowPeriods
         IN  GapPhase(pushed, Tail(gaps), ranges)

\* (a, b) => a.startTime - b.startTime
CompareStartTime(a, b) == Minus(a.startTime, b.startTime)

\* variant of InsertSorted that leaves out a period starting when another does
RECURSIVE InsertSorted_DropsTie(_, _)
InsertSorted_DropsTie(sorted, p) ==
    IF sorted = <<>> THEN <<p>>
    ELSE IF CompareStartTime(Head(sorted), p) = Num(0)
         THEN sorted
         ELSE IF Gt(CompareStartTime(Head(sorted), p), Num(0))
              THEN <<p>> \o sorted
              ELSE <<Head(sorted)>> \o InsertSorted_DropsTie(Tail(sorted), p)

\* variant of InsertSorted that places p in front of the elements it ties with
RECURSIVE InsertSorted_BeforeEqual(_, _)
InsertSorted_BeforeEqual(sorted, p) ==
    IF sorted = <<>> THEN <<p>>
    ELSE IF Ge(CompareStartTime(Head(sorted), p), Num(0))
         THEN <<p>> \o sorted
         ELSE <<Head(sorted)>> \o InsertSorted_BeforeEqual(Tail(sorted), p)

\* insert p behind every element that does not compare greater than it
RECURSIVE InsertSorted(_, _)
InsertSorted(sorted, p) ==
    IF sorted = <<>> THEN <<p>>
    ELSE IF Gt(CompareStartTime(Head(sorted), p), Num(0))
         THEN <<p>> \o sorted
         ELSE <<Head(sorted)>> \o InsertSorted(Tail(sorted), p)

\* Array.prototype.sort with CompareStartTime: a stable sort (ECMAScript 2019)
RECURSIVE SortByStartTime(_)
SortByStartTime(periods) ==
    IF periods = <<>> THEN <<>>
    ELSE InsertSorted(SortByStartTime(SubSeq(periods, 1, Len(periods) - 1)),
                      periods[Len(periods)])

\* variant of findSlowPeriodsWithRanges that reads an empty selection as all ranges
findSlowPeriodsWithRanges_DefaultAll(recs, ranges) ==
    LET used == IF Len(ranges) = 0 THEN TimeRanges ELSE ranges
    IN  SortByStartTime(GapPhase(SlowPhase(recs, used),
                                 findTimestampGaps(recs, null),
                                 used))

findSlowPeriodsWithRanges(recs, ranges) ==
    IF Len(ranges) = 0 THEN <<>>
    ELSE SortByStartTime(GapPhase(SlowPhase(recs, ranges),
                                  findTimestampGaps(recs, null),
                                  ranges))

----------------------------------------------------------------------------
(* Time extractor                                                          *)

\* the outcome of a call that ends in an exception
Thrown(error) == [thrown |-> error]

IsThrown(outcome) == DOMAIN outcome = {"thrown"}

\* variant of extractActivityTimes that reads the records only when the session
\* gave no start time
extractActivityTimes_RecordsAsFallback(sess, recs) ==
    LET hasSession == Len(sess) > 0
        session == sess[1]
        hasElapsed == hasSession /\ Truthy(session.totalElapsedTime)
        startTime1 == IF hasSession THEN session.startTime ELSE null
        endTime1 == IF hasElapsed
                    THEN DateOf(startTime1.v + session.totalElapsedTime.v * 1000)
                    ELSE null
        useRecords == Len(recs) > 0 /\ ~Truthy(startTime1)
    IN  IF hasElapsed /\ startTime1.t # "Date"
        THEN Thrown("TypeError")
        ELSE [startTime |-> IF useRecords THEN recs[1].timestamp ELSE startTime1,
              endTime |-> IF useRecords THEN recs[1].timestamp ELSE endTime1,
              movingTime |-> IF hasSession THEN session.totalTimerTime ELSE null,
              totalDistance |-> IF hasSession THEN session.totalDistance ELSE null]

\* startTime.getTime() needs a Date; on undefined or null it is a TypeError
extractActivityTimes(sess, recs) ==
    LET hasSession == Len(sess) > 0
        session == sess[1]
        hasElapsed == hasSession /\ Truthy(session.totalElapsedTime)
        startTime1 == IF hasSession THEN session.startTime ELSE null
        \* new Date(startTime.getTime() + (session.totalElapsedTime * 1000)),
        \* totalElapsedTime a whole number of seconds
        endTime1 == IF hasElapsed
                    THEN DateOf(startTime1.v + session.totalElapsedTime.v * 1000)
                    ELSE null
    IN  IF hasElapsed /\ startTime1.t # "Date"
        THEN Thrown("TypeError")
        ELSE [startTime |-> IF Len(recs) > 0 THEN recs[1].timestamp ELSE startTime1,
              endTime |-> IF Len(recs) > 0 THEN recs[Len(recs)].timestamp ELSE endTime1,
              movingTime |-> IF hasSession THEN session.totalTimerTime ELSE null,
              totalDistance |-> IF hasSession THEN session.totalDistance ELSE null]

----------------------------------------------------------------------------
(* Durations shown by displayActivityData                                  *)

MsPerSecond == 1000

\* Math.round((endTime - startTime) / 1000)
RoundedSeconds(startTime, endTime) ==
    MathRound(DivBy(Minus(endTime, startTime), MsPerSecond))

\* a + b
Plus(a, b) ==
    LET x == ToNumber(a)
        y == ToNumber(b)
    IN  IF IsNum(x) /\ IsNum(y)
        THEN [t |-> "number", v |-> x.v * y.d + y.v * x.d, d |-> x.d * y.d]
        ELSE NaN

\* slowPeriods.reduce((total, period) => total + Math.round(...), 0)
RECURSIVE TotalSlowDuration(_)
TotalSlowDuration(periods) ==
    IF periods = <<>> THEN Num(0)
    ELSE Plus(TotalSlowDuration(SubSeq(periods, 1, Len(periods) - 1)),
              RoundedSeconds(periods[Len(periods)].startTime,
                             periods[Len(periods)].endTime))

\* Math.max(0, duration - totalSlowDuration), or duration when there is no period
EstimatedMovingTime(duration, periods) ==
    IF Len(periods) > 0
    THEN LET rest == Minus(duration, TotalSlowDuration(periods))
         IN  IF ~IsNum(rest) THEN NaN
             ELSE IF rest.v < 0 THEN Num(0) ELSE rest
    ELSE duration

----------------------------------------------------------------------------
(* Inputs                                                                  *)

\* longest record array handed to the analysis
MaxRecords == 4

\* longest session array, and longest record array, handed to the time extractor
MaxSessions == 2

MaxTimedRecords == 2

BoundedSeq(S, n) == UNION {[1..k -> S] : k \in 0..n}

FitRecord(timestamp, enhancedSpeed, speed, distance, positionLat, positionLong) ==
    [timestamp |-> timestamp, enhancedSpeed |-> enhancedSpeed, speed |-> speed,
     distance |-> distance, positionLat |-> positionLat, positionLong |-> positionLong]

FitSession(startTime, totalTimerTime, totalElapsedTime, totalDistance) ==
    [startTime |-> startTime, totalTimerTime |-> totalTimerTime,
     totalElapsedTime |-> totalElapsedTime, totalDistance |-> totalDistance]

\* a record that carries a timestamp (or none) and a speed, nothing else
TimedRecord(timestamp, speed) ==
    FitRecord(timestamp, undefined, speed, undefined, undefined, undefined)

\* speeds in m/s: standing, and above the threshold
Standing == Num(0)
Riding == Num(5)

\* milliseconds since the start of the activity
Minutes(n) == n * MsPerMinute

\* records of the pipeline: 0, 5 and 10 minutes, slow or fast, and a slow record
\* without timestamp
PipelineRecordInputs ==
    {TimedRecord(DateOf(Minutes(m)), sp) : m \in {0, 5, 10}, sp \in {Standing, Riding}}
    \cup {TimedRecord(undefined, Standing)}

\* selections of the range checkboxes, in checkbox order
SelectionInputs ==
    {<<>>, <<"2to5">>, <<"5to10", "10to30">>, TimeRanges}

\* the gap-threshold select: missing from the page, or set to 10 minutes
SelectInputs == {null, Str(Minutes(10))}

NoCall == [fn |-> "none"]

InputsUnchanged ==
    UNCHANGED <<records, sessions, selectedRanges, timestampGapThresholdSelect>>

\* the locals of findSlowPeriodsWithRanges exist only while it is stepped
Frame(pc, i, currentSlowSequence, slowPeriods) ==
    [pc |-> pc, i |-> i, currentSlowSequence |-> currentSlowSequence,
     slowPeriods |-> slowPeriods]

NoFrame == Frame("idle", 0, <<>>, <<>>)

NotStepping == frame = NoFrame

\* the page as the script finds it: globals null, nothing displayed, nothing scheduled
NothingLoaded ==
    /\ currentFitData = null
    /\ currentFileName = null
    /\ activityMap = null
    /\ currentSlowPeriods = null
    /\ fileInput = null
    /\ showPeriodsOnMapCheckbox = TRUE
    /\ activitySummary = null
    /\ slowPeriodData = null
    /\ activityDataElement = "empty"
    /\ timeouts = <<>>
    /\ pending = <<>>

\* a function called on its own touches neither the globals nor the document
PageUnchanged == UNCHANGED pageVars

LocalsUnchanged == UNCHANGED frame

----------------------------------------------------------------------------
(* The pipeline: findSlowPeriodsWithRanges on a decoded activity           *)

Init ==
    /\ records \in BoundedSeq(PipelineRecordInputs, MaxRecords)
    /\ sessions = <<>>
    /\ selectedRanges \in SelectionInputs
    /\ timestampGapThresholdSelect \in SelectInputs
    /\ call = NoCall
    /\ ret = null
    /\ NotStepping
    /\ NothingLoaded

CallFindSlowPeriodsWithRanges ==
    /\ call' = [fn |-> "findSlowPeriodsWithRanges"]
    /\ ret' = findSlowPeriodsWithRanges(records, selectedRanges)
    /\ InputsUnchanged
    /\ PageUnchanged
    /\ LocalsUnchanged

Next == CallFindSlowPeriodsWithRanges

Spec == Init /\ [][Next]_vars

----------------------------------------------------------------------------
(* Claims about the pipeline, checked under Spec                           *)

Returned(fn) == call.fn = fn

IsGapPeriod(p) == p.isGap = Bool(TRUE)

\* C4: findSlowPeriodsWithRanges returns its periods in ascending order of
\* startTime, and among periods with the same startTime a slow run comes before
\* a gap (the sort is stable and the runs are pushed first).
C4_SortedStable ==
    Returned("findSlowPeriodsWithRanges") =>
        /\ \A i \in 1..(Len(ret) - 1) :
              /\ ret[i].startTime.t = "Date"
              /\ ret[i + 1].startTime.t = "Date"
              /\ ret[i].startTime.v <= ret[i + 1].startTime.v
        /\ \A i, j \in 1..Len(ret) :
              (i < j /\ ret[i].startTime = ret[j].startTime)
                  => ~(IsGapPeriod(ret[i]) /\ ~IsGapPeriod(ret[j]))

\* a slow run and a gap that start at the same instant are both returned
C4_Witness ==
    /\ Returned("findSlowPeriodsWithRanges")
    /\ \E i, j \in 1..Len(ret) :
          /\ i < j
          /\ ret[i].startTime = ret[j].startTime
          /\ ~IsGapPeriod(ret[i])
          /\ IsGapPeriod(ret[j])

\* C5: every returned period has startTime <= endTime; its recordCount is 0
\* exactly when it is a gap period, and a slow-run period counts at least one
\* record.
C5_PeriodInvariant ==
    Returned("findSlowPeriodsWithRanges") =>
        \A i \in 1..Len(ret) :
            /\ ret[i].startTime.t = "Date"
            /\ ret[i].endTime.t = "Date"
            /\ ret[i].startTime.v <= ret[i].endTime.v
            /\ (ret[i].recordCount = 0) <=> IsGapPeriod(ret[i])
            /\ ~IsGapPeriod(ret[i]) => ret[i].recordCount >= 1

\* both kinds of period are returned by one call
C5_Witness ==
    /\ Returned("findSlowPeriodsWithRanges")
    /\ \E i, j \in 1..Len(ret) :
          /\ IsGapPeriod(ret[i]) /\ ret[i].recordCount = 0
          /\ ~IsGapPeriod(ret[j]) /\ ret[j].recordCount >= 2

\* C6: with no range selected findSlowPeriodsWithRanges returns the empty list,
\* whatever the records and the gap threshold.
C6_EmptySelection ==
    (Returned("findSlowPeriodsWithRanges") /\ Len(selectedRanges) = 0) => ret = <<>>

\* nothing is selected although the records hold periods that every range
\* together would report
C6_Witness ==
    /\ Returned("findSlowPeriodsWithRanges")
    /\ Len(selectedRanges) = 0
    /\ Len(findSlowPeriodsWithRanges(records, TimeRanges)) >= 2
    /\ ret = <<>>

----------------------------------------------------------------------------
(* The range classifier on its own: matchesTimeRange                       *)

RangeArgs == {TimeRanges[k] : k \in 1..Len(TimeRanges)} \cup {"unknown"}

\* every bound of a range in minutes, and half a minute to either side; NaN
MinuteArgs ==
    {Rat(2 * b + e, 2) : b \in {0, 2, 5, 10, 30, 60, 120}, e \in {-1, 0, 1}} \cup {NaN}

\* every bound of a range in hours, and a quarter of an hour to either side; NaN
HourArgs == {Rat(4 * h + e, 4) : h \in {0, 1, 2}, e \in {-1, 0, 1}} \cup {NaN}

InitRange ==
    /\ records = <<>>
    /\ sessions = <<>>
    /\ selectedRanges = <<>>
    /\ timestampGapThresholdSelect = null
    /\ call = NoCall
    /\ ret = null
    /\ NotStepping
    /\ NothingLoaded

CallMatchesTimeRange ==
    \E range \in RangeArgs, durationMinutes \in MinuteArgs, durationHours \in HourArgs :
        /\ call' = [fn |-> "matchesTimeRange", range |-> range,
                    durationMinutes |-> durationMinutes, durationHours |-> durationHours]
        /\ ret' = Bool(matchesTimeRange(range, durationMinutes, durationHours))
        /\ InputsUnchanged
        /\ PageUnchanged
        /\ LocalsUnchanged

NextRange == CallMatchesTimeRange

SpecRange == InitRange /\ [][NextRange]_vars

\* lo <= x < hi for the number x
Within(x, lo, hi) == x.t = "number" /\ lo * x.d <= x.v /\ x.v < hi * x.d

AtLeast(x, lo) == x.t = "number" /\ lo * x.d <= x.v

\* C2: matchesTimeRange is total: true exactly when 2 <= minutes < 5 for 2to5,
\* 5 <= minutes < 10 for 5to10, 10 <= minutes < 30 for 10to30, 30 <= minutes < 60
\* for 30to60, 1 <= hours < 2 for 1to2hours, hours >= 2 for over2hours, and false
\* for any other tag.
C2_MatchesTimeRange ==
    Returned("matchesTimeRange") =>
        ret = Bool(CASE call.range = "2to5" -> Within(call.durationMinutes, 2, 5)
                     [] call.range = "5to10" -> Within(call.durationMinutes, 5, 10)
                     [] call.range = "10to30" -> Within(call.durationMinutes, 10, 30)
                     [] call.range = "30to60" -> Within(call.durationMinutes, 30, 60)
                     [] call.range = "1to2hours" -> Within(call.durationHours, 1, 2)
                     [] call.range = "over2hours" -> AtLeast(call.durationHours, 2)
                     [] OTHER -> FALSE)

\* a call on exactly five minutes with the tag 2to5 has answered false
C2_Witness ==
    /\ Returned("matchesTimeRange")
    /\ call.range = "2to5"
    /\ call.durationMinutes = Rat(10, 2)
    /\ ret = Bool(FALSE)

----------------------------------------------------------------------------
(* The gap detector on its own: findTimestampGaps(records, threshold)      *)

\* timestamps at 0, 2 minutes, 2 minutes and a millisecond, 10 minutes; none
\* (the property missing, or null)
GapRecordInputs ==
    {TimedRecord(DateOf(ms), Standing) :
        ms \in {0, Minutes(2), Minutes(2) + 1, Minutes(10)}}
    \cup {TimedRecord(undefined, Standing), TimedRecord(null, Standing)}

\* the select: missing from the page, nothing chosen, or set to 10 minutes
GapSelectInputs == {null, EmptyStr, Str(Minutes(10))}

\* the threshold argument: omitted (null), 0, 2 minutes, 5 minutes
ThresholdArgs == {null, Num(0), Num(Minutes(2)), Num(Minutes(5))}

InitGaps ==
    /\ records \in BoundedSeq(GapRecordInputs, MaxRecords)
    /\ sessions = <<>>
    /\ selectedRanges = <<>>
    /\ timestampGapThresholdSelect \in GapSelectInputs
    /\ call = NoCall
    /\ ret = null
    /\ NotStepping
    /\ NothingLoaded

CallFindTimestampGaps ==
    \E threshold \in ThresholdArgs :
        /\ call' = [fn |-> "findTimestampGaps", threshold |-> threshold]
        /\ ret' = findTimestampGaps(records, threshold)
        /\ InputsUnchanged
        /\ PageUnchanged
        /\ LocalsUnchanged

NextGaps == CallFindTimestampGaps

SpecGaps == InitGaps /\ [][NextGaps]_vars

\* the indices whose pair carries two timestamps more than ms apart
GapIndices(recs, ms) ==
    {i \in 2..Len(recs) :
        /\ recs[i - 1].timestamp.t = "Date"
        /\ recs[i].timestamp.t = "Date"
        /\ recs[i].timestamp.v - recs[i - 1].timestamp.v > ms}

\* the k-th smallest element of S
KthOf(S, k) == CHOOSE i \in S : Cardinality({j \in S : j <= i}) = k

\* gaps holds one gap for each index of GapIndices, in order, and nothing else
GapsAreExactly(gaps, recs, ms) ==
    LET S == GapIndices(recs, ms)
    IN  /\ Len(gaps) = Cardinality(S)
        /\ \A k \in 1..Len(gaps) :
              /\ gaps[k].startTime = recs[KthOf(S, k) - 1].timestamp
              /\ gaps[k].endTime = recs[KthOf(S, k)].timestamp

C1_ThresholdInForce ==
    IF call.threshold.t = "number" /\ call.threshold.v # 0
    THEN call.threshold.v
    ELSE IF timestampGapThresholdSelect.t = "string"
         THEN timestampGapThresholdSelect.v
         ELSE 300000

TimestampedPairs(recs) ==
    {i \in 2..Len(recs) :
        /\ recs[i - 1].timestamp \notin {undefined, null}
        /\ recs[i].timestamp \notin {undefined, null}}

\* C12: findTimestampGaps returns a list for irregular input: a pair in which
\* either record has no timestamp is skipped and yields no gap (every gap
\* reported belongs to a pair with two timestamps, and there are no more gaps
\* than such pairs), and an empty record list yields the empty list.
C12_IrregularInput ==
    Returned("findTimestampGaps") =>
        /\ Len(ret) <= Cardinality(TimestampedPairs(records))
        /\ \A k \in 1..Len(ret) :
              \E i \in TimestampedPairs(records) :
                  /\ ret[k].startTime = records[i - 1].timestamp
                  /\ ret[k].endTime = records[i].timestamp
        /\ (Len(records) = 0 => ret = <<>>)

\* records at 0 and 10 minutes with a record of null timestamp between them:
\* both pairs were skipped and nothing is reported at a 2 minute threshold
C12_Witness ==
    /\ Returned("findTimestampGaps")
    /\ call.threshold = Num(Minutes(2))
    /\ Len(records) = 3
    /\ records[1].timestamp = DateOf(0)
    /\ records[2].timestamp = null
    /\ records[3].timestamp = DateOf(Minutes(10))
    /\ ret = <<>>

----------------------------------------------------------------------------
(* The run finaliser on its own: processSlowSequence(run, selectedRanges)  *)

\* timestamps at 0, a millisecond short of 5 minutes, 5 minutes, 1 hour and
\* 2 hours; none
RunRecordInputs ==
    {TimedRecord(DateOf(ms), Standing) :
        ms \in {0, Minutes(5) - 1, Minutes(5), Minutes(60), Minutes(120)}}
    \cup {TimedRecord(undefined, Standing)}

RunSelectionInputs ==
    {<<>>, <<"2to5", "5to10">>, <<"30to60">>, <<"1to2hours">>, <<"over2hours">>,
     TimeRanges}

InitRun ==
    /\ records \in BoundedSeq(RunRecordInputs, MaxRecords)
    /\ sessions = <<>>
    /\ selectedRanges \in RunSelectionInputs
    /\ timestampGapThresholdSelect = null
    /\ call = NoCall
    /\ ret = null
    /\ NotStepping
    /\ NothingLoaded

CallProcessSlowSequence ==
    /\ call' = [fn |-> "processSlowSequence"]
    /\ ret' = processSlowSequence(records, selectedRanges)
    /\ InputsUnchanged
    /\ PageUnchanged
    /\ LocalsUnchanged

NextRun == CallProcessSlowSequence

SpecRun == InitRun /\ [][NextRun]_vars

\* the duration ms, in milliseconds, lies in the range named by tag
MsInRange(tag, ms) ==
    CASE tag = "2to5" -> 120000 <= ms /\ ms < 300000
      [] tag = "5to10" -> 300000 <= ms /\ ms < 600000
      [] tag = "10to30" -> 600000 <= ms /\ ms < 1800000
      [] tag = "30to60" -> 1800000 <= ms /\ ms < 3600000
      [] tag = "1to2hours" -> 3600000 <= ms /\ ms < 7200000
      [] tag = "over2hours" -> 7200000 <= ms
      [] OTHER -> FALSE

\* the run's first and last record carry timestamps whose difference lies in a
\* selected range
RunMatchesSelection(run, ranges) ==
    /\ run[1].timestamp.t = "Date"
    /\ run[Len(run)].timestamp.t = "Date"
    /\ \E k \in 1..Len(ranges) :
          MsInRange(ranges[k], run[Len(run)].timestamp.v - run[1].timestamp.v)

\* C3: processSlowSequence returns null for an empty run; for a non-empty run it
\* returns a descriptor iff last.timestamp - first.timestamp lies in a selected
\* range, with startTime and endTime the first and last timestamp and
\* recordCount the length of the run; otherwise it returns null.
C3_ProcessSlowSequence ==
    Returned("processSlowSequence") =>
        IF Len(records) = 0 THEN ret = null
        ELSE IF RunMatchesSelection(records, selectedRanges)
             THEN /\ ret # null
                  /\ ret.startTime = records[1].timestamp
                  /\ ret.endTime = records[Len(records)].timestamp
                  /\ ret.recordCount = Len(records)
             ELSE ret = null

\* a run of three records spanning exactly 5 minutes, with 2to5 and 5to10
\* selected, has yielded a descriptor
C3_Witness ==
    /\ Returned("processSlowSequence")
    /\ selectedRanges = <<"2to5", "5to10">>
    /\ Len(records) = 3
    /\ records[1].timestamp = DateOf(0)
    /\ records[3].timestamp = DateOf(Minutes(5))
    /\ ret # null
    /\ ret.recordCount = 3

----------------------------------------------------------------------------
(* The time extractor on its own: extractActivityTimes(sessions, records)  *)

\* sessions with or without start time, with an elapsed time absent, 0 or 3900 s,
\* and with or without timer time and distance
SessionInputs ==
    {FitSession(startTime, summary[1], totalElapsedTime, summary[2]) :
        startTime \in {undefined, DateOf(Minutes(60))},
        totalElapsedTime \in {undefined, Num(0), Num(3900)},
        summary \in {<<undefined, undefined>>, <<Num(3600), Num(25000)>>}}

TimesRecordInputs ==
    {TimedRecord(ts, Standing) : ts \in {undefined, DateOf(0), DateOf(Minutes(5))}}

InitTimes ==
    /\ records \in BoundedSeq(TimesRecordInputs, MaxTimedRecords)
    /\ sessions \in BoundedSeq(SessionInputs, MaxSessions)
    /\ selectedRanges = <<>>
    /\ timestampGapThresholdSelect = null
    /\ call = NoCall
    /\ ret = null
    /\ NotStepping
    /\ NothingLoaded

CallExtractActivityTimes ==
    /\ call' = [fn |-> "extractActivityTimes"]
    /\ ret' = extractActivityTimes(sessions, records)
    /\ InputsUnchanged
    /\ PageUnchanged
    /\ LocalsUnchanged

NextTimes == CallExtractActivityTimes

SpecTimes == InitTimes /\ [][NextTimes]_vars

\* C7: whenever records is non-empty, extractActivityTimes returns the first
\* and last record's timestamps as startTime and endTime, whatever the first
\* session says, and movingTime and totalDistance of the first session when
\* there is one.
C7_RecordsOverwrite ==
    (Returned("extractActivityTimes") /\ Len(records) > 0) =>
        /\ ~IsThrown(ret)
        /\ ret.startTime = records[1].timestamp
        /\ ret.endTime = records[Len(records)].timestamp
        /\ Len(sessions) > 0 =>
              /\ ret.movingTime = sessions[1].totalTimerTime
              /\ ret.totalDistance = sessions[1].totalDistance

\* C8: with at least one session and no records, extractActivityTimes returns
\* the first session's startTime, totalTimerTime and totalDistance, and endTime =
\* startTime + totalElapsedTime seconds when totalElapsedTime is present, null
\* when it is absent.
C8_SessionTimes ==
    (Returned("extractActivityTimes") /\ Len(sessions) > 0 /\ Len(records) = 0) =>
        /\ ~IsThrown(ret)
        /\ ret.startTime = sessions[1].startTime
        /\ ret.movingTime = sessions[1].totalTimerTime
        /\ ret.totalDistance = sessions[1].totalDistance
        /\ sessions[1].totalElapsedTime = undefined => ret.endTime = null
        /\ (sessions[1].totalElapsedTime # undefined /\ sessions[1].startTime.t = "Date") =>
              ret.endTime = DateOf(sessions[1].startTime.v
                                   + 1000 * sessions[1].totalElapsedTime.v)

\* C9: extractActivityTimes never raises, whichever session fields are present
\* and whatever the records.
C9_NeverRaises ==
    Returned("extractActivityTimes") => ~IsThrown(ret)

\* C10: extractActivityTimes([], []) returns four nulls; with no session and
\* non-empty records movingTime and totalDistance are null and startTime and
\* endTime are the first and last record's timestamps.
C10_NoSession ==
    (Returned("extractActivityTimes") /\ Len(sessions) = 0) =>
        /\ ~IsThrown(ret)
        /\ ret.movingTime = null
        /\ ret.totalDistance = null
        /\ Len(records) = 0 => (ret.startTime = null /\ ret.endTime = null)
        /\ Len(records) > 0 =>
              /\ ret.startTime = records[1].timestamp
              /\ ret.endTime = records[Len(records)].timestamp

\* a call without sessions on two records with different timestamps has returned
C10_Witness ==
    /\ Returned("extractActivityTimes")
    /\ Len(sessions) = 0
    /\ Len(records) = 2
    /\ records[1].timestamp = DateOf(0)
    /\ records[2].timestamp = DateOf(Minutes(5))
    /\ ~IsThrown(ret)
    /\ ret.endTime = DateOf(Minutes(5))

----------------------------------------------------------------------------
(* processSlowSequence on runs whose records carry distances               *)

MaxDetailRecords == 3

\* a record with a timestamp and a cumulative distance in metres (or none)
DistanceRecord(timestamp, distance) ==
    FitRecord(timestamp, undefined, Standing, distance, undefined, undefined)

\* records at 0 and 3 minutes; no distance, 0 m, 1000 m or 2500 m
DistanceRecordInputs ==
    {DistanceRecord(DateOf(Minutes(m)), dist) :
        m \in {0, 3}, dist \in {undefined, Num(0), Num(1000), Num(2500)}}

InitRunDistance ==
    /\ records \in BoundedSeq(DistanceRecordInputs, MaxDetailRecords)
    /\ sessions = <<>>
    /\ selectedRanges \in {<<"2to5">>, TimeRanges}
    /\ timestampGapThresholdSelect = null
    /\ call = NoCall
    /\ ret = null
    /\ NotStepping
    /\ NothingLoaded

SpecRunDistance == InitRunDistance /\ [][NextRun]_vars

\* C11: the descriptor of a run has startDistance = the first record's
\* distance (0 when absent) and endDistance = the last record's distance when
\* that record has one, startDistance only when it has none.
C11_Distances ==
    (Returned("processSlowSequence") /\ ret # null) =>
        LET first == records[1].distance
            last == records[Len(records)].distance
        IN /\ ret.startDistance = (IF first = undefined THEN Num(0) ELSE first)
           /\ ret.endDistance = (IF last = undefined THEN ret.startDistance ELSE last)

----------------------------------------------------------------------------
(* findTimestampGaps on records that carry distances and positions         *)

\* records at 0, 2 min 50 s and 7 min 20 s (differences of 2.83, 4.5 and 7.33
\* minutes), each with one of five payloads: nothing; distance and position;
\* latitude only; latitude 0 with a longitude; distance 0 and position
GapDetailRecordInputs ==
    {FitRecord(DateOf(ms), undefined, Standing, pl[1], pl[2], pl[3]) :
        ms \in {0, 170000, 440000},
        pl \in {<<undefined, undefined, undefined>>,
                <<Num(1000), Num(1000), Num(-3000)>>,
                <<undefined, Num(1000), undefined>>,
                <<Num(2500), Num(0), Num(-3000)>>,
                <<Num(0), Num(2000), Num(4000)>>}}

InitGapDetail ==
    /\ records \in BoundedSeq(GapDetailRecordInputs, MaxDetailRecords)
    /\ sessions = <<>>
    /\ selectedRanges = <<>>
    /\ timestampGapThresholdSelect = null
    /\ call = NoCall
    /\ ret = null
    /\ NotStepping
    /\ NothingLoaded

SpecGapDetail == InitGapDetail /\ [][NextGaps]_vars

\* semicircles as degrees: s * 180 / 2^31 = s * 45 / 2^29
Degrees(semicircles) == Rat(45 * semicircles.v, 536870912)

\* the record has no usable position: latitude or longitude missing, null or 0
LacksPosition(record) ==
    \/ record.positionLat \in {undefined, null, Num(0)}
    \/ record.positionLong \in {undefined, null, Num(0)}

\* the point of a record, or null when it has no usable position
PointOrNull(record) ==
    IF LacksPosition(record) THEN null
    ELSE [lat |-> Degrees(record.positionLat), lng |-> Degrees(record.positionLong)]

\* m is diff / 60000 rounded to the nearest integer, halves upwards
IsRoundedMinutes(m, diff) ==
    /\ MsPerMinute * (2 * m - 1) <= 2 * diff
    /\ 2 * diff < MsPerMinute * (2 * m + 1)

\* C13: the gaps are reported in scan order, one per pair over the threshold,
\* and the gap of the pair (prev, cur) has gapDuration = cur.timestamp -
\* prev.timestamp, gapDurationMinutes = that difference / 60000 rounded,
\* gapDurationHours = gapDurationMinutes / 60, startDistance and endDistance
\* the distance of prev and of cur (0 when absent), and startGpsPoint and
\* endGpsPoint the point of prev and of cur, each null exactly when its own
\* record has no latitude or no longitude (missing or 0).
C13_GapFields ==
    Returned("findTimestampGaps") =>
        LET S == GapIndices(records, C1_ThresholdInForce)
        IN  /\ Len(ret) = Cardinality(S)
            /\ \A k \in 1..Len(ret) :
                  LET prev == records[KthOf(S, k) - 1]
                      cur == records[KthOf(S, k)]
                      diff == cur.timestamp.v - prev.timestamp.v
                      gap == ret[k]
                  IN  /\ gap.gapDuration = Num(diff)
                      /\ gap.gapDurationMinutes.t = "number"
                      /\ gap.gapDurationMinutes.d = 1
                      /\ IsRoundedMinutes(gap.gapDurationMinutes.v, diff)
                      /\ gap.gapDurationHours.t = "number"
                      /\ gap.gapDurationHours.v * MinutesPerHour
                            = gap.gapDurationMinutes.v * gap.gapDurationHours.d
                      /\ gap.startDistance
                            = (IF prev.distance = undefined THEN Num(0) ELSE prev.distance)
                      /\ gap.endDistance
                            = (IF cur.distance = undefined THEN Num(0) ELSE cur.distance)
                      /\ gap.startGpsPoint = PointOrNull(prev)
                      /\ gap.endGpsPoint = PointOrNull(cur)

\* three records 2.83 and 4.5 minutes apart at a 2 minute threshold: two gaps,
\* of 3 and 5 minutes; the first has an end point and no start point
C13_Witness ==
    /\ Returned("findTimestampGaps")
    /\ call.threshold = Num(Minutes(2))
    /\ Len(records) = 3
    /\ Len(ret) = 2
    /\ ret[1].gapDurationMinutes = Num(3)
    /\ ret[2].gapDurationMinutes = Num(5)
    /\ ret[1].startGpsPoint = null
    /\ ret[1].endGpsPoint # null

----------------------------------------------------------------------------
(* The coordinate conversion on its own: convertGpsCoordinates(records)    *)

\* a record with the two position fields and nothing else
PositionRecord(positionLat, positionLong) ==
    FitRecord(undefined, undefined, undefined, undefined, positionLat, positionLong)

\* latitude missing, null, 0 or a semicircle count; longitude missing, 0 or a
\* semicircle count
PositionRecordInputs ==
    {PositionRecord(lat, long) :
        lat \in {undefined, null, Num(0), Num(1000), Num(2000)},
        long \in {undefined, Num(0), Num(-3000)}}

InitGps ==
    /\ records \in BoundedSeq(PositionRecordInputs, MaxDetailRecords)
    /\ sessions = <<>>
    /\ selectedRanges = <<>>
    /\ timestampGapThresholdSelect = null
    /\ call = NoCall
    /\ ret = null
    /\ NotStepping
    /\ NothingLoaded

CallConvertGpsCoordinates ==
    /\ call' = [fn |-> "convertGpsCoordinates"]
    /\ ret' = convertGpsCoordinates(records)
    /\ InputsUnchanged
    /\ PageUnchanged
    /\ LocalsUnchanged

NextGps == CallConvertGpsCoordinates

SpecGps == InitGps /\ [][NextGps]_vars

\* the indices of the records whose latitude and longitude are both present
\* and not 0
PositionedIndices(recs) == {i \in 1..Len(recs) : ~LacksPosition(recs[i])}

\* C14: convertGpsCoordinates returns one point per record whose positionLat
\* and positionLong are both truthy (a missing, null or 0 value in either
\* drops the record), the point being (positionLat * 180 / 2^31,
\* positionLong * 180 / 2^31), in the order of the records; the length of the
\* result is the number of such records.
C14_ConvertGpsCoordinates ==
    Returned("convertGpsCoordinates") =>
        LET S == PositionedIndices(records)
        IN  /\ Len(ret) = Cardinality(S)
            /\ \A k \in 1..Len(ret) :
                  /\ ret[k].lat = Degrees(records[KthOf(S, k)].positionLat)
                  /\ ret[k].lng = Degrees(records[KthOf(S, k)].positionLong)

\* of three records the middle one has latitude 0: it was dropped and the
\* other two appear in order
C14_Witness ==
    /\ Returned("convertGpsCoordinates")
    /\ Len(records) = 3
    /\ records[1] = PositionRecord(Num(1000), Num(-3000))
    /\ records[2] = PositionRecord(Num(0), Num(-3000))
    /\ records[3] = PositionRecord(Num(2000), Num(-3000))
    /\ Len(ret) = 2
    /\ ret[1].lat = Degrees(Num(1000))
    /\ ret[2].lat = Degrees(Num(2000))

----------------------------------------------------------------------------
(* findSlowPeriodsWithRanges statement by statement: the early return, one *)
(* step per iteration of the record loop, the flush of the trailing run,   *)
(* and the gap phase with the sort and the return                          *)

\* records at 0, 5 and 15 minutes, slow or fast, and a slow record without
\* timestamp
StepRecordInputs ==
    {TimedRecord(DateOf(Minutes(m)), sp) : m \in {0, 5, 15}, sp \in {Standing, Riding}}
    \cup {TimedRecord(undefined, Standing)}

StepSelectionInputs == {<<>>, <<"5to10", "10to30">>}

InitSteps ==
    /\ records \in BoundedSeq(StepRecordInputs, MaxRecords)
    /\ sessions = <<>>
    /\ selectedRanges \in StepSelectionInputs
    /\ timestampGapThresholdSelect \in SelectInputs
    /\ call = NoCall
    /\ ret = null
    /\ NotStepping
    /\ NothingLoaded

\* if (selectedRanges.length === 0) return []; const slowPeriods = []; ...
EnterFindSlowPeriodsWithRanges ==
    /\ frame.pc = "idle"
    /\ call' = [fn |-> "findSlowPeriodsWithRanges"]
    /\ IF Len(selectedRanges) = 0
       THEN /\ frame' = Frame("done", 0, <<>>, <<>>)
            /\ ret' = <<>>
       ELSE /\ frame' = Frame("loop", 1, <<>>, <<>>)
            /\ ret' = ret
    /\ InputsUnchanged
    /\ PageUnchanged

\* one iteration of for (let i = 0; i < records.length; i++)
LoopIteration ==
    /\ frame.pc = "loop"
    /\ frame.i <= Len(records)
    /\ LET st == SlowStep(frame, records[frame.i], selectedRanges)
       IN  frame' = Frame("loop", frame.i + 1, st.currentSlowSequence, st.slowPeriods)
    /\ UNCHANGED <<call, ret>>
    /\ InputsUnchanged
    /\ PageUnchanged

\* variant of FlushFinalSequence that leaves the trailing run unprocessed
FlushFinalSequence_Omitted ==
    /\ frame.pc = "loop"
    /\ frame.i > Len(records)
    /\ frame' = Frame("gaps", frame.i, frame.currentSlowSequence, frame.slowPeriods)
    /\ UNCHANGED <<call, ret>>
    /\ InputsUnchanged
    /\ PageUnchanged

\* the loop is over: finalSlowPeriod
FlushFinalSequence ==
    /\ frame.pc = "loop"
    /\ frame.i > Len(records)
    /\ frame' = Frame("gaps", frame.i, frame.currentSlowSequence,
                      PushIfPeriod(frame.slowPeriods,
                                   processSlowSequence(frame.currentSlowSequence,
                                                       selectedRanges)))
    /\ UNCHANGED <<call, ret>>
    /\ InputsUnchanged
    /\ PageUnchanged

\* variant of AddGapsSortAndReturn whose gap phase uses the fixed 5 minute
\* threshold instead of the select's value
AddGapsSortAndReturn_FixedGapThreshold ==
    /\ frame.pc = "gaps"
    /\ LET sorted == SortByStartTime(GapPhase(frame.slowPeriods,
                                              GapScan(records, Num(DefaultGapThreshold), 2),
                                              selectedRanges))
       IN  /\ frame' = Frame("done", frame.i, frame.currentSlowSequence, sorted)
           /\ ret' = sorted
    /\ UNCHANGED call
    /\ InputsUnchanged
    /\ PageUnchanged

\* phase 2, slowPeriods.sort(...) and return slowPeriods
AddGapsSortAndReturn ==
    /\ frame.pc = "gaps"
    /\ LET sorted == SortByStartTime(GapPhase(frame.slowPeriods,
                                              findTimestampGaps(records, null),
                                              selectedRanges))
       IN  /\ frame' = Frame("done", frame.i, frame.currentSlowSequence, sorted)
           /\ ret' = sorted
    /\ UNCHANGED call
    /\ InputsUnchanged
    /\ PageUnchanged

NextSteps ==
    \/ EnterFindSlowPeriodsWithRanges
    \/ LoopIteration
    \/ FlushFinalSequence
    \/ AddGapsSortAndReturn

SpecSteps == InitSteps /\ [][NextSteps]_vars

\* the statements, taken one by one, return what the function returns
SteppedResultIsCallResult ==
    frame.pc = "done" => ret = findSlowPeriodsWithRanges(records, selectedRanges)

\* how often p occurs in the list
Occurrences(list, p) == Cardinality({k \in 1..Len(list) : list[k] = p})

\* list is the beginning of longer
IsPrefix(list, longer) ==
    /\ Len(list) <= Len(longer)
    /\ \A k \in 1..Len(list) : longer[k] = list[k]

\* C16: no step of findSlowPeriodsWithRanges (processSlowSequence,
\* findTimestampGaps and convertGpsCoordinates run inside its steps) changes
\* the records, the selection or the select; and a period that has been
\* appended to the output is never changed or removed: the loop and the flush
\* only append, and the last step only adds gap periods and reorders.
C16_Frame ==
    [][/\ records' = records
       /\ selectedRanges' = selectedRanges
       /\ timestampGapThresholdSelect' = timestampGapThresholdSelect
       /\ sessions' = sessions
       /\ (frame.pc = "loop" => IsPrefix(frame.slowPeriods, frame'.slowPeriods))
       /\ (frame.pc = "gaps" =>
             /\ Len(ret') >= Len(frame.slowPeriods)
             /\ \A k \in 1..Len(frame.slowPeriods) :
                   Occurrences(ret', frame.slowPeriods[k])
                       = Occurrences(frame.slowPeriods, frame.slowPeriods[k])
             /\ \A k \in 1..Len(ret') :
                   IsGapPeriod(ret'[k]) \/ Occurrences(frame.slowPeriods, ret'[k]) > 0)
      ]_vars

\* the function has returned a gap followed by a slow period: the slow period
\* was appended first and the sort moved the gap in front of it
C16_Witness ==
    /\ frame.pc = "done"
    /\ Len(ret) = 2
    /\ IsGapPeriod(ret[1])
    /\ ~IsGapPeriod(ret[2])
    /\ ret[2].recordCount = 2

----------------------------------------------------------------------------
(* Duration formatting: formatDuration(totalSeconds)                       *)

SecondsPerHour == 3600
SecondsPerMinute == 60

\* a string is the sequence of its characters
DigitChar(d) == <<"0", "1", "2", "3", "4", "5", "6", "7", "8", "9">>[d + 1]

\* the decimal numeral of a natural number, as template literals print it
RECURSIVE Decimal(_)
Decimal(n) ==
    IF n < 10 THEN <<DigitChar(n)>>
    ELSE Decimal(n \div 10) \o <<DigitChar(n % 10)>>

\* variant of formatDuration that does not take the hours out of the minutes
formatDuration_WholeMinutes(totalSeconds) ==
    LET hours == totalSeconds \div SecondsPerHour
        minutes == totalSeconds \div SecondsPerMinute
        seconds == totalSeconds % SecondsPerMinute
    IN  IF totalSeconds >= SecondsPerHour
        THEN Decimal(hours) \o <<"h", " ">> \o Decimal(minutes) \o <<"m", " ">>
             \o Decimal(seconds) \o <<"s">>
        ELSE Decimal(minutes) \o <<"m", " ">> \o Decimal(seconds) \o <<"s">>

\* totalSeconds is a non-negative integer, for which Math.floor(a / b) is
\* a \div b and the remainder operators agree
formatDuration(totalSeconds) ==
    LET hours == totalSeconds \div SecondsPerHour
        minutes == (totalSeconds % SecondsPerHour) \div SecondsPerMinute
        seconds == totalSeconds % SecondsPerMinute
    IN  IF totalSeconds >= SecondsPerHour
        THEN Decimal(hours) \o <<"h", " ">> \o Decimal(minutes) \o <<"m", " ">>
             \o Decimal(seconds) \o <<"s">>
        ELSE Decimal(minutes) \o <<"m", " ">> \o Decimal(seconds) \o <<"s">>

\* durations up to a little over two hours
MaxSeconds == 7400

InitFormat ==
    /\ records = <<>>
    /\ sessions = <<>>
    /\ selectedRanges = <<>>
    /\ timestampGapThresholdSelect = null
    /\ call = NoCall
    /\ ret = null
    /\ NotStepping
    /\ NothingLoaded

\* one call per behaviour: the result depends on the argument alone
CallFormatDuration ==
    /\ call = NoCall
    /\ \E totalSeconds \in 0..MaxSeconds :
          /\ call' = [fn |-> "formatDuration", totalSeconds |-> totalSeconds]
          /\ ret' = formatDuration(totalSeconds)
    /\ InputsUnchanged
    /\ PageUnchanged
    /\ LocalsUnchanged

NextFormat == CallFormatDuration

SpecFormat == InitFormat /\ [][NextFormat]_vars

\* the text "Hh Mm Ss" or, without hours, "Mm Ss"
DurationText(withHours, H, M, S) ==
    (IF withHours THEN Decimal(H) \o <<"h", " ">> ELSE <<>>)
    \o Decimal(M) \o <<"m", " ">> \o Decimal(S) \o <<"s">>

\* C17: for a non-negative integer totalSeconds, formatDuration returns
\* "Hh Mm Ss" when totalSeconds >= 3600 and "Mm Ss" otherwise, where H, M, S
\* are the natural numbers with M < 60, S < 60 and H * 3600 + M * 60 + S =
\* totalSeconds (that is, H = floor(t / 3600), M = floor((t mod 3600) / 60),
\* S = t mod 60).
C17_FormatDuration ==
    Returned("formatDuration") =>
        LET t == call.totalSeconds
        IN  \E H \in 0..(MaxSeconds \div 3600 + 1), M \in 0..59 :
                LET S == t - H * 3600 - M * 60
                IN  /\ 0 <= S
                    /\ S < 60
                    /\ ret = DurationText(t >= 3600, H, M, S)

\* formatDuration(3665) has returned "1h 1m 5s"
C17_Witness ==
    /\ Returned("formatDuration")
    /\ call.totalSeconds = 3665
    /\ ret = <<"1", "h", " ", "1", "m", " ", "5", "s">>

----------------------------------------------------------------------------
(* The record loop and its runs, checked under SpecSteps                   *)

\* the gap threshold of the page, in milliseconds: the select's value, or 5
\* minutes when there is no select
ThresholdOfSelect ==
    IF timestampGapThresholdSelect.t = "string"
    THEN timestampGapThresholdSelect.v
    ELSE 300000

\* the loop is about to look at a slow record while a run is accumulated, and
\* that record and the last record of the run carry timestamps
SlowRecordMeetsRun ==
    /\ frame.pc = "loop"
    /\ frame.i <= Len(records)
    /\ IsSlow(records[frame.i])
    /\ Len(frame.currentSlowSequence) > 0
    /\ records[frame.i].timestamp.t = "Date"
    /\ frame.currentSlowSequence[Len(frame.currentSlowSequence)].timestamp.t = "Date"

\* the periods after the run has been finalised: one more, describing the run,
\* when the run's duration lies in a selected range, and the same otherwise
RunFinalised(run, before, after) ==
    IF RunMatchesSelection(run, selectedRanges)
    THEN /\ Len(after) = Len(before) + 1
         /\ IsPrefix(before, after)
         /\ after[Len(after)].startTime = run[1].timestamp
         /\ after[Len(after)].endTime = run[Len(run)].timestamp
         /\ after[Len(after)].recordCount = Len(run)
    ELSE after = before

\* C18: when the loop meets a slow record while a run is accumulated and the
\* record's timestamp exceeds that of the run's last record by more than the
\* gap threshold, the run is finalised and a new run holding exactly that
\* record is started; when the difference is at most the threshold, the
\* record is appended to the run and nothing is finalised.
C18_GapSplitsRun ==
    [][SlowRecordMeetsRun =>
          LET record == records[frame.i]
              run == frame.currentSlowSequence
              timeDifference == record.timestamp.v - run[Len(run)].timestamp.v
          IN  IF timeDifference > ThresholdOfSelect
              THEN /\ frame'.currentSlowSequence = <<record>>
                   /\ RunFinalised(run, frame.slowPeriods, frame'.slowPeriods)
              ELSE /\ frame'.currentSlowSequence = Append(run, record)
                   /\ frame'.slowPeriods = frame.slowPeriods
      ]_vars

\* slow records at 0, 5 and 15 minutes with the 5 minute default: the third
\* record has split the run, the first two are a period, the third is the run
C18_Witness ==
    /\ frame.pc = "loop"
    /\ frame.i = 4
    /\ timestampGapThresholdSelect = null
    /\ IsSlow(records[1]) /\ IsSlow(records[2]) /\ IsSlow(records[3])
    /\ records[2].timestamp = DateOf(Minutes(5))
    /\ records[3].timestamp = DateOf(Minutes(15))
    /\ Len(frame.slowPeriods) = 1
    /\ frame.slowPeriods[1].recordCount = 2
    /\ frame.currentSlowSequence = <<records[3]>>

\* records a..b are consecutive slow records that the period p describes
DescribesSlowRecords(p, a, b) ==
    /\ a <= b
    /\ \A j \in a..b : IsSlow(records[j])
    /\ p.startTime = records[a].timestamp
    /\ p.endTime = records[b].timestamp
    /\ p.recordCount = b - a + 1

\* x and y are consecutive records with timestamps more than the gap threshold
\* apart
SplitByGap(x, y) ==
    /\ x.timestamp.t = "Date"
    /\ y.timestamp.t = "Date"
    /\ y.timestamp.v - x.timestamp.v > ThresholdOfSelect

\* C20 as stated: every slow period describes a maximal run of consecutive
\* slow records: the record before its first and the record after its last,
\* when they exist, are not slow.
C20_MaximalRun ==
    frame.pc = "done" =>
        \A k \in 1..Len(ret) :
            IsGapPeriod(ret[k]) \/
            \E a, b \in 1..Len(records) :
                /\ DescribesSlowRecords(ret[k], a, b)
                /\ (a > 1 => ~IsSlow(records[a - 1]))
                /\ (b < Len(records) => ~IsSlow(records[b + 1]))

\* C20 (amended): every slow period describes a run of consecutive slow
\* records that is maximal up to gap splits: the record before its first and
\* the record after its last, when they exist, are either not slow or more
\* than the gap threshold away from the run in time.
C20_MaximalUpToGaps ==
    frame.pc = "done" =>
        \A k \in 1..Len(ret) :
            IsGapPeriod(ret[k]) \/
            \E a, b \in 1..Len(records) :
                /\ DescribesSlowRecords(ret[k], a, b)
                /\ (a > 1 =>
                      ~IsSlow(records[a - 1]) \/ SplitByGap(records[a - 1], records[a]))
                /\ (b < Len(records) =>
                      ~IsSlow(records[b + 1]) \/ SplitByGap(records[b], records[b + 1]))

\* a fast record, slow records at 0 and 5 minutes and a slow record at 15
\* minutes: the period of the two records is returned, bounded by the fast
\* record and by the gap
C20_Witness ==
    /\ frame.pc = "done"
    /\ timestampGapThresholdSelect = null
    /\ Len(records) = 4
    /\ ~IsSlow(records[1])
    /\ IsSlow(records[2]) /\ IsSlow(records[3]) /\ IsSlow(records[4])
    /\ records[2].timestamp = DateOf(0)
    /\ records[3].timestamp = DateOf(Minutes(5))
    /\ records[4].timestamp = DateOf(Minutes(15))
    /\ \E k \in 1..Len(ret) : ~IsGapPeriod(ret[k]) /\ ret[k].recordCount = 2

----------------------------------------------------------------------------
(* The pipeline on longer activities, whose slow runs can outlast the gap  *)
(* threshold                                                               *)

MaxSpanRecords == 5

\* slow records at 0, 5 and 10 minutes, fast records at 0 and 10 minutes, and
\* a slow record without timestamp
SpanRecordInputs ==
    {TimedRecord(DateOf(Minutes(m)), Standing) : m \in {0, 5, 10}}
    \cup {TimedRecord(DateOf(Minutes(m)), Riding) : m \in {0, 10}}
    \cup {TimedRecord(undefined, Standing)}

InitSpan ==
    /\ records \in BoundedSeq(SpanRecordInputs, MaxSpanRecords)
    /\ sessions = <<>>
    /\ selectedRanges \in {<<"10to30">>, TimeRanges}
    /\ timestampGapThresholdSelect \in SelectInputs
    /\ call = NoCall
    /\ ret = null
    /\ NotStepping
    /\ NothingLoaded

SpecSpan == InitSpan /\ [][Next]_vars

\* the timestamps that are present never decrease along the record list
NonDecreasingTimestamps ==
    \A x, y \in 1..Len(records) :
        (x < y /\ records[x].timestamp.t = "Date" /\ records[y].timestamp.t = "Date")
            => records[x].timestamp.v <= records[y].timestamp.v

\* no pair of consecutive records a..b is split by a gap
NoGapWithin(a, b) ==
    \A j \in (a + 1)..b : ~SplitByGap(records[j - 1], records[j])

\* no interval that findTimestampGaps reports lies inside the period p
NoReportedGapInside(p) ==
    \A j \in GapIndices(records, ThresholdOfSelect) :
        ~(/\ p.startTime.v <= records[j - 1].timestamp.v
          /\ records[j].timestamp.v <= p.endTime.v)

\* C19 as stated: within every slow period each pair of consecutive records
\* with timestamps differs by at most the gap threshold, and no interval
\* reported by findTimestampGaps lies inside a slow period.
C19_NoGapInsidePeriod ==
    Returned("findSlowPeriodsWithRanges") =>
        \A k \in 1..Len(ret) :
            IsGapPeriod(ret[k]) \/
            /\ \E a, b \in 1..Len(records) :
                  DescribesSlowRecords(ret[k], a, b) /\ NoGapWithin(a, b)
            /\ NoReportedGapInside(ret[k])

\* C19 (amended): within every slow period each pair of consecutive records
\* with timestamps differs by at most the gap threshold; and when the
\* timestamps of the records never decrease, no interval reported by
\* findTimestampGaps lies inside a slow period.
C19_NoGapInsideRun ==
    Returned("findSlowPeriodsWithRanges") =>
        \A k \in 1..Len(ret) :
            IsGapPeriod(ret[k]) \/
            /\ \E a, b \in 1..Len(records) :
                  DescribesSlowRecords(ret[k], a, b) /\ NoGapWithin(a, b)
            /\ (NonDecreasingTimestamps => NoReportedGapInside(ret[k]))

\* slow records at 0, 5 and 10 minutes followed by a fast record at 10
\* minutes: the run of 10 minutes is returned as one period, longer than the
\* 5 minute threshold and without a gap inside
C19_Witness ==
    /\ Returned("findSlowPeriodsWithRanges")
    /\ timestampGapThresholdSelect = null
    /\ NonDecreasingTimestamps
    /\ Len(records) = 4
    /\ \A j \in 1..3 : IsSlow(records[j]) /\ records[j].timestamp = DateOf(Minutes(5 * (j - 1)))
    /\ ~IsSlow(records[4])
    /\ Len(ret) = 1
    /\ ret[1].recordCount = 3
    /\ ret[1].endTime = DateOf(Minutes(10))

----------------------------------------------------------------------------
(* The record loop on records with both speed fields                       *)

\* a record with a timestamp and the two speed fields
SpeedRecord(timestamp, enhancedSpeed, speed) ==
    FitRecord(timestamp, enhancedSpeed, speed, undefined, undefined, undefined)

\* (enhancedSpeed, speed) in m/s: neither; speed 0.5; speed 0.75; enhanced 0
\* with speed 5; enhanced 0.5 with speed 5; enhanced 2 with speed 0; enhanced
\* 0.75 with speed 0
SpeedPairInputs ==
    {<<undefined, undefined>>, <<undefined, Rat(1, 2)>>, <<undefined, Rat(3, 4)>>,
     <<Num(0), Num(5)>>, <<Rat(1, 2), Num(5)>>, <<Num(2), Num(0)>>,
     <<Rat(3, 4), Num(0)>>}

\* records at 0 and 3 minutes
SpeedRecordInputs ==
    {SpeedRecord(DateOf(Minutes(m)), sp[1], sp[2]) : m \in {0, 3}, sp \in SpeedPairInputs}

InitSpeed ==
    /\ records \in BoundedSeq(SpeedRecordInputs, MaxDetailRecords)
    /\ sessions = <<>>
    /\ selectedRanges = <<"2to5">>
    /\ timestampGapThresholdSelect = null
    /\ call = NoCall
    /\ ret = null
    /\ NotStepping
    /\ NothingLoaded

SpecSpeed == InitSpeed /\ [][NextSteps]_vars

\* the field holds a number other than 0
PresentAndNonZero(x) == x.t = "number" /\ x.v # 0

\* the record's effective speed is below 3/4 m/s: enhancedSpeed when present
\* and non-zero, otherwise speed when present and non-zero, otherwise 0
EffectivelySlow(record) ==
    LET eff == IF PresentAndNonZero(record.enhancedSpeed) THEN record.enhancedSpeed
               ELSE IF PresentAndNonZero(record.speed) THEN record.speed
               ELSE Num(0)
    IN  4 * eff.v < 3 * eff.d

\* C21: the loop treats a record as slow iff its effective speed is below
\* 0.75 m/s (enhancedSpeed when present and non-zero, otherwise speed when
\* present and non-zero, otherwise 0): such a record becomes the last record
\* of the run, while a record with effective speed >= 0.75 closes the current
\* run (the run is finalised and emptied) and is never in a run.
C21_SlowClassification ==
    [][(frame.pc = "loop" /\ frame.i <= Len(records)) =>
          LET record == records[frame.i]
              run == frame.currentSlowSequence
              after == frame'.currentSlowSequence
          IN  /\ IF EffectivelySlow(record)
                 THEN Len(after) > 0 /\ after[Len(after)] = record
                 ELSE /\ after = <<>>
                      /\ IF Len(run) = 0
                         THEN frame'.slowPeriods = frame.slowPeriods
                         ELSE RunFinalised(run, frame.slowPeriods, frame'.slowPeriods)
              /\ \A k \in 1..Len(after) : EffectivelySlow(after[k])
      ]_vars

\* two slow records 3 minutes apart, then a record with enhancedSpeed 0 and
\* speed 5: it has closed the run, which is now a period, and no run is open
C21_Witness ==
    /\ frame.pc = "loop"
    /\ frame.i = 4
    /\ records[3].enhancedSpeed = Num(0)
    /\ records[3].speed = Num(5)
    /\ frame.currentSlowSequence = <<>>
    /\ Len(frame.slowPeriods) = 1
    /\ frame.slowPeriods[1].recordCount = 2

----------------------------------------------------------------------------
(* The end of the scan, checked under SpecSteps                            *)

\* the period p describes the run
DescribesRun(p, run) ==
    /\ ~IsGapPeriod(p)
    /\ p.startTime = run[1].timestamp
    /\ p.endTime = run[Len(run)].timestamp
    /\ p.recordCount = Len(run)

\* the run's duration lies in a selected range
OpenRunMatches(run) == Len(run) > 0 /\ RunMatchesSelection(run, selectedRanges)

\* the periods of the list that are not gaps
SlowPeriodCount(list) == Cardinality({k \in 1..Len(list) : ~IsGapPeriod(list[k])})

\* C22: a run that is still open when the loop has passed the last record is
\* finalised exactly once after the loop: the step after the loop appends one
\* period describing it when its duration lies in a selected range (and
\* nothing otherwise), and the function then returns that period among its
\* slow periods without finalising anything again.
C22_TrailingRunFlushed ==
    [][/\ (frame.pc = "loop" /\ frame.i > Len(records)) =>
             /\ frame'.pc = "gaps"
             /\ IF OpenRunMatches(frame.currentSlowSequence)
                THEN /\ RunFinalised(frame.currentSlowSequence,
                                     frame.slowPeriods, frame'.slowPeriods)
                     /\ DescribesRun(frame'.slowPeriods[Len(frame'.slowPeriods)],
                                     frame.currentSlowSequence)
                ELSE frame'.slowPeriods = frame.slowPeriods
       /\ frame.pc = "gaps" =>
             /\ SlowPeriodCount(ret') = Len(frame.slowPeriods)
             /\ OpenRunMatches(frame.currentSlowSequence) =>
                   \E k \in 1..Len(ret') : DescribesRun(ret'[k], frame.currentSlowSequence)
      ]_vars

\* an activity of two slow records 5 minutes apart and nothing after them: the
\* run has been returned as a period
C22_Witness ==
    /\ frame.pc = "done"
    /\ Len(records) = 2
    /\ IsSlow(records[1]) /\ IsSlow(records[2])
    /\ records[1].timestamp = DateOf(0)
    /\ records[2].timestamp = DateOf(Minutes(5))
    /\ Len(ret) = 1
    /\ DescribesRun(ret[1], records)

----------------------------------------------------------------------------
(* The pipeline on records with positions: gaps that become periods        *)

\* slow records at 0, 2 min 50 s and 7 min 20 s with one of four payloads:
\* nothing; distance and position; latitude only; latitude 0 with a longitude
GapPeriodRecordInputs ==
    {FitRecord(DateOf(ms), undefined, Standing, pl[1], pl[2], pl[3]) :
        ms \in {0, 170000, 440000},
        pl \in {<<undefined, undefined, undefined>>,
                <<Num(1000), Num(1000), Num(-3000)>>,
                <<undefined, Num(1000), undefined>>,
                <<Num(2500), Num(0), Num(-3000)>>}}

\* the select: missing from the page, or set to 2 minutes
GapPeriodSelectInputs == {null, Str(Minutes(2))}

InitGapPeriod ==
    /\ records \in BoundedSeq(GapPeriodRecordInputs, MaxDetailRecords)
    /\ sessions = <<>>
    /\ selectedRanges \in {<<"2to5">>, <<"5to10">>}
    /\ timestampGapThresholdSelect \in GapPeriodSelectInputs
    /\ call = NoCall
    /\ ret = null
    /\ NotStepping
    /\ NothingLoaded

SpecGapPeriod == InitGapPeriod /\ [][Next]_vars

\* the GPS points of a gap: both ends, the one that exists, or none
PointsOfGap(gap) ==
    CASE gap.startGpsPoint # null /\ gap.endGpsPoint # null
            -> <<gap.startGpsPoint, gap.endGpsPoint>>
      [] gap.startGpsPoint # null /\ gap.endGpsPoint = null -> <<gap.startGpsPoint>>
      [] gap.startGpsPoint = null /\ gap.endGpsPoint # null -> <<gap.endGpsPoint>>
      [] OTHER -> <<>>

\* p is the period of the gap
IsPeriodOfGap(p, gap) ==
    /\ p.isGap = Bool(TRUE)
    /\ p.recordCount = 0
    /\ p.gapData = gap
    /\ p.gpsPoints = PointsOfGap(gap)

\* matchesTimeRange holds for a selected range on the gap's own rounded
\* minutes and hours
GapPassesSelection(gap) ==
    \E r \in 1..Len(selectedRanges) :
        matchesTimeRange(selectedRanges[r], gap.gapDurationMinutes, gap.gapDurationHours)

\* C23: a gap found by findTimestampGaps becomes a period iff matchesTimeRange
\* holds for some selected range on the gap's own gapDurationMinutes and
\* gapDurationHours, whatever the slow runs are: the gap periods returned are
\* exactly the periods of those gaps, each as often as the gap was found; a
\* gap period has isGap = true, recordCount = 0, gapData = the gap, and
\* gpsPoints = both points, the single existing point, or none.
C23_GapBecomesPeriod ==
    Returned("findSlowPeriodsWithRanges") =>
        LET gaps == findTimestampGaps(records, null)
        IN  /\ \A k \in 1..Len(ret) :
                  IsGapPeriod(ret[k]) =>
                      \E j \in 1..Len(gaps) :
                          GapPassesSelection(gaps[j]) /\ IsPeriodOfGap(ret[k], gaps[j])
            /\ \A j \in 1..Len(gaps) :
                  Cardinality({k \in 1..Len(ret) :
                                  IsGapPeriod(ret[k]) /\ ret[k].gapData = gaps[j]})
                    = IF GapPassesSelection(gaps[j])
                      THEN Occurrences(gaps, gaps[j])
                      ELSE 0

\* a gap whose first record has no position and whose second has one was
\* returned as a period with that single point
C23_Witness ==
    /\ Returned("findSlowPeriodsWithRanges")
    /\ \E k \in 1..Len(ret) :
          /\ IsGapPeriod(ret[k])
          /\ ret[k].gapData.startGpsPoint = null
          /\ ret[k].gapData.endGpsPoint # null
          /\ ret[k].gpsPoints = <<ret[k].gapData.endGpsPoint>>

----------------------------------------------------------------------------
(* The merge, checked under SpecSteps                                      *)

\* how many of the gaps found pass the selection and have p as their period
PassingGapsWithPeriod(gaps, p) ==
    Cardinality({j \in 1..Len(gaps) :
                    GapPassesSelection(gaps[j]) /\ IsPeriodOfGap(p, gaps[j])})

\* C24: the merge filters nothing: the list returned holds exactly the slow
\* periods that the scan appended (the runs for which processSlowSequence
\* returned a period) and exactly the gaps that passed the range test, each as
\* often as it was appended; the sort drops, duplicates and alters nothing.
C24_MergeKeepsEverything ==
    [][frame.pc = "gaps" =>
          LET gaps == findTimestampGaps(records, null)
              passing == {j \in 1..Len(gaps) : GapPassesSelection(gaps[j])}
          IN  /\ Len(ret') = Len(frame.slowPeriods) + Cardinality(passing)
              /\ \A k \in 1..Len(ret') :
                    Occurrences(ret', ret'[k])
                        = Occurrences(frame.slowPeriods, ret'[k])
                          + PassingGapsWithPeriod(gaps, ret'[k])
      ]_vars

\* a slow period and a gap that start at the same time have both been returned
C24_Witness ==
    /\ frame.pc = "done"
    /\ Len(ret) = 2
    /\ ret[1].startTime = ret[2].startTime
    /\ ~IsGapPeriod(ret[1])
    /\ IsGapPeriod(ret[2])

----------------------------------------------------------------------------
(* Real and rounded durations of the periods, checked under SpecGapPeriod  *)

\* a duration of ms milliseconds lies in a selected range
InSelectedRange(ms) ==
    \E r \in 1..Len(selectedRanges) : MsInRange(selectedRanges[r], ms)

\* the real duration of the period, in milliseconds
RealDuration(p) == p.endTime.v - p.startTime.v

\* the duration rounded to whole minutes (halves upwards) lies in a selected range
RoundedInSelectedRange(ms) ==
    \E m \in 0..(ms \div MsPerMinute + 1) :
        IsRoundedMinutes(m, ms) /\ InSelectedRange(m * MsPerMinute)

\* C26 as stated: every period returned, slow run or gap, has a real duration
\* endTime - startTime that lies in a selected range.
C26_RealDurationInRange ==
    Returned("findSlowPeriodsWithRanges") =>
        \A k \in 1..Len(ret) : InSelectedRange(RealDuration(ret[k]))

\* C26 (amended): every slow period returned has a real duration that lies in
\* a selected range; every gap period returned has a duration that lies in a
\* selected range once it is rounded to whole minutes, so its real duration
\* can lie up to half a minute outside every selected range.
C26_RoundedDurationInRange ==
    Returned("findSlowPeriodsWithRanges") =>
        \A k \in 1..Len(ret) :
            IF IsGapPeriod(ret[k])
            THEN RoundedInSelectedRange(RealDuration(ret[k]))
            ELSE InSelectedRange(RealDuration(ret[k]))

\* with only 5to10 selected, a gap of 4 minutes 30 seconds has been returned
C26_Witness ==
    /\ Returned("findSlowPeriodsWithRanges")
    /\ selectedRanges = <<"5to10">>
    /\ \E k \in 1..Len(ret) : IsGapPeriod(ret[k]) /\ RealDuration(ret[k]) = 270000

----------------------------------------------------------------------------
(* processSlowSequence with every range selected                           *)

\* slow records at 0, 1 min 59 s, 2, 5, 10, 30, 60 and 120 minutes, and one
\* without timestamp
BucketRecordInputs ==
    {TimedRecord(DateOf(ms), Standing) :
        ms \in {0, 119000, Minutes(2), Minutes(5), Minutes(10), Minutes(30),
                Minutes(60), Minutes(120)}}
    \cup {TimedRecord(undefined, Standing)}

InitBuckets ==
    /\ records \in BoundedSeq(BucketRecordInputs, MaxDetailRecords)
    /\ sessions = <<>>
    /\ selectedRanges = TimeRanges
    /\ timestampGapThresholdSelect = null
    /\ call = NoCall
    /\ ret = null
    /\ NotStepping
    /\ NothingLoaded

SpecBuckets == InitBuckets /\ [][NextRun]_vars

\* the ranges that match a duration of ms milliseconds, hours being minutes / 60
RangesMatching(ms) ==
    {r \in 1..Len(TimeRanges) :
        matchesTimeRange(TimeRanges[r], Rat(ms, MsPerMinute),
                         Rat(ms, MsPerMinute * MinutesPerHour))}

\* C28: with hours = minutes / 60 the six ranges are disjoint and cover the
\* durations of at least 2 minutes: the duration of a run matches exactly one
\* range when it is at least 2 minutes and none when it is shorter (a single
\* record's 0 included); so with all six ranges selected processSlowSequence
\* returns a period iff the run lasts at least 2 minutes.
C28_RangesPartition ==
    (Returned("processSlowSequence") /\ Len(records) > 0
        /\ records[1].timestamp.t = "Date"
        /\ records[Len(records)].timestamp.t = "Date") =>
        LET ms == records[Len(records)].timestamp.v - records[1].timestamp.v
        IN  /\ Cardinality(RangesMatching(ms)) = (IF ms >= 120000 THEN 1 ELSE 0)
            /\ (ret # null) <=> (ms >= 120000)

\* a run of exactly 60 minutes has been returned; it matches one range only
C28_Witness ==
    /\ Returned("processSlowSequence")
    /\ Len(records) = 2
    /\ records[1].timestamp = DateOf(0)
    /\ records[2].timestamp = DateOf(Minutes(60))
    /\ ret # null
    /\ Cardinality(RangesMatching(Minutes(60))) = 1

----------------------------------------------------------------------------
(* The periods on the time line, checked under SpecSteps                   *)

\* the periods p and q share at most an endpoint
DoNotOverlap(p, q) ==
    \/ p.endTime.v <= q.startTime.v
    \/ q.endTime.v <= p.startTime.v

----------------------------------------------------------------------------
(* The page: globals, event handlers and deferred callbacks of main.ts      *)

\* a file name, and an array held in a global that may also be null
FileName(name) == [string |-> name]

ArrayOf(list) == [array |-> list]

\* a .fit file: its name, and the messages the decoder reads from its bytes
FitFile(name, recordMesgs, sessionMesgs) ==
    [name |-> FileName(name),
     fitData |-> [recordMesgs |-> recordMesgs, sessionMesgs |-> sessionMesgs]]

\* standing still at 0 and 5 minutes, recording resumed at 15 minutes elsewhere
RideFile ==
    FitFile("ride.fit",
            <<FitRecord(DateOf(Minutes(0)), undefined, Standing, Num(0), Num(1), Num(1)),
              FitRecord(DateOf(Minutes(5)), undefined, Standing, Num(0), Num(1), Num(1)),
              FitRecord(DateOf(Minutes(15)), undefined, Standing, Num(900), Num(2), Num(2))>>,
            <<>>)

\* the file behind the example link: a stop of 3 minutes, then riding
ExampleFile ==
    FitFile("GreatBritishEscapades2025.fit",
            <<FitRecord(DateOf(Minutes(0)), undefined, Standing, Num(0), Num(3), Num(3)),
              FitRecord(DateOf(Minutes(3)), undefined, Standing, Num(0), Num(3), Num(3)),
              FitRecord(DateOf(Minutes(4)), undefined, Riding, Num(300), Num(3), Num(4))>>,
            <<>>)

\* positions without timestamps and no session: start and end time are unknown
UntimedFile ==
    FitFile("course.fit",
            <<FitRecord(undefined, undefined, Standing, Num(0), Num(5), Num(5)),
              FitRecord(undefined, undefined, Standing, Num(100), Num(5), Num(6))>>,
            <<>>)

\* a session with an elapsed time and no start time, and no record
SummaryFile ==
    FitFile("summary.fit", <<>>, <<FitSession(undefined, Num(600), Num(600), Num(1000))>>)

\* the files the user can choose in the file input
UserFiles == {RideFile, UntimedFile, SummaryFile}

\* selections of the range checkboxes the user switches between
PageSelectionInputs == {<<"2to5", "5to10", "10to30">>, <<"10to30">>}

\* values of the gap threshold select: 5 and 10 minutes
PageSelectInputs == {Str(Minutes(5)), Str(Minutes(10))}

\* suspended async handlers and deferred callbacks waiting at once
MaxTasks == 2

\* another handler may be suspended, or another callback deferred
RoomForTask == Len(pending) + Len(timeouts) < MaxTasks

\* the globals and the document, as the functions below read and change them
Page ==
    [currentFitData |-> currentFitData,
     currentFileName |-> currentFileName,
     activityMap |-> activityMap,
     currentSlowPeriods |-> currentSlowPeriods,
     activitySummary |-> activitySummary,
     slowPeriodData |-> slowPeriodData,
     activityDataElement |-> activityDataElement,
     timeouts |-> timeouts]

SetPage(page) ==
    /\ currentFitData' = page.currentFitData
    /\ currentFileName' = page.currentFileName
    /\ activityMap' = page.activityMap
    /\ currentSlowPeriods' = page.currentSlowPeriods
    /\ activitySummary' = page.activitySummary
    /\ slowPeriodData' = page.slowPeriodData
    /\ activityDataElement' = page.activityDataElement
    /\ timeouts' = page.timeouts

\* updateMapOverlays draws a marker for a gap that has a start position and for
\* a slow period that has at least one position
HasOverlay(period) ==
    IF IsGapPeriod(period)
    THEN period.gapData.startGpsPoint # null
    ELSE Len(period.gpsPoints) > 0

\* if (!activityMap || !currentSlowPeriods) return; remove the overlay layers;
\* if (!showPeriodsOnMapCheckbox.checked) return; draw currentSlowPeriods
updateMapOverlays(page) ==
    IF page.activityMap = null \/ page.currentSlowPeriods = null
    THEN page
    ELSE [page EXCEPT !.activityMap.overlays =
              IF showPeriodsOnMapCheckbox
              THEN SelectSeq(page.currentSlowPeriods.array, HasOverlay)
              ELSE <<>>]

\* returns early without positions; otherwise creates the map or removes its
\* polylines and markers, draws the route and calls updateMapOverlays
initializeMap(page, fitData) ==
    LET gpsPoints == convertGpsCoordinates(fitData.recordMesgs)
    IN  IF Len(gpsPoints) = 0
        THEN page
        ELSE updateMapOverlays([page EXCEPT !.activityMap =
                                    [route |-> gpsPoints, overlays |-> <<>>]])

\* what #activitySummary shows for a file whose times are known
ActivityTimes(startTime, endTime, slowPeriods) ==
    LET duration == RoundedSeconds(startTime, endTime)
    IN  [duration |-> duration,
         stoppedTime |-> TotalSlowDuration(slowPeriods),
         movingTime |-> EstimatedMovingTime(duration, slowPeriods)]

\* #slowPeriodData after createSlowPeriodsDisplay: the periods listed, each with
\* an element miniMap<index> that is still empty
SlowPeriodsDisplay(slowPeriods) ==
    [periods |-> slowPeriods, miniMaps |-> [index \in 1..Len(slowPeriods) |-> null]]

\* the branch if (startTime && endTime): keep the periods for the overlay, defer
\* the mini maps when there is a period, redraw the overlays
Analysed(page, slowPeriods) ==
    updateMapOverlays([page EXCEPT !.currentSlowPeriods = ArrayOf(slowPeriods),
                                   !.timeouts = IF Len(slowPeriods) > 0
                                                THEN Append(@, slowPeriods)
                                                ELSE @])

\* the page displayActivityData leaves, given what extractActivityTimes and
\* findSlowPeriodsWithRanges returned
Displayed(page, fileName, times, slowPeriods) ==
    LET known == Truthy(times.startTime) /\ Truthy(times.endTime)
    IN  [(IF known THEN Analysed(page, slowPeriods) ELSE page) EXCEPT
            !.activitySummary =
                [title |-> fileName,
                 times |-> IF known
                           THEN ActivityTimes(times.startTime, times.endTime, slowPeriods)
                           ELSE null],
            !.slowPeriodData = IF known THEN SlowPeriodsDisplay(slowPeriods) ELSE null,
            !.activityDataElement = "file-summary"]

\* displayActivityData(fitData, fileName): the page it leaves, or the exception
\* of extractActivityTimes, thrown before anything is changed
displayActivityData(page, fitData, fileName) ==
    CHOOSE outcome \in
        {IF IsThrown(times) THEN times ELSE Displayed(page, fileName, times, slowPeriods) :
            times \in {extractActivityTimes(fitData.sessionMesgs, fitData.recordMesgs)},
            slowPeriods \in {findSlowPeriodsWithRanges(fitData.recordMesgs,
                                                       selectedRanges)}} : TRUE

\* the mini map of a period has something to show
HasMiniMapPoints(period) ==
    IF IsGapPeriod(period)
    THEN period.gapData.startGpsPoint # null \/ period.gapData.endGpsPoint # null
    ELSE Len(period.gpsPoints) > 0

\* the element already holds a Leaflet map
HoldsLeafletMap(element) == element # null /\ HasMiniMapPoints(element)

\* periods.forEach((period, index) => ...): skips an index without element,
\* puts a message into the element of a period without position, and calls
\* L.map on the others. What L.map does on an element that already holds a map
\* is Leaflet's business: onInitialised says whether it "throws", which ends
\* the forEach, or "replaces" the map.
RECURSIVE RenderMiniMaps(_, _, _, _)
RenderMiniMaps(miniMaps, periods, index, onInitialised) ==
    IF index > Len(periods) THEN miniMaps
    ELSE IF index > Len(miniMaps)
    THEN RenderMiniMaps(miniMaps, periods, index + 1, onInitialised)
    ELSE IF HasMiniMapPoints(periods[index]) /\ HoldsLeafletMap(miniMaps[index])
            /\ onInitialised = "throws"
    THEN miniMaps
    ELSE RenderMiniMaps([miniMaps EXCEPT ![index] = periods[index]], periods,
                        index + 1, onInitialised)

initializeCombinedMiniMaps(page, periods, onInitialised) ==
    IF page.slowPeriodData = null THEN page
    ELSE [page EXCEPT !.slowPeriodData.miniMaps =
              RenderMiniMaps(@, periods, 1, onInitialised)]

\* currentFitData = fitData; currentFileName = file.name
Stored(page, file) ==
    [page EXCEPT !.currentFitData = file.fitData, !.currentFileName = file.name]

\* the catch block of a loader: the error message replaces the activity data
Caught(page) == [page EXCEPT !.activityDataElement = "error"]

\* what a handler's call of displayActivityData returned
DisplayOutcome(displayed) == IF IsThrown(displayed) THEN displayed ELSE undefined

Suspended(handler, at, file) == [handler |-> handler, at |-> at, file |-> file]

Without(list, k) == SubSeq(list, 1, k - 1) \o SubSeq(list, k + 1, Len(list))

AnalysisUntouched == UNCHANGED <<records, sessions, frame>>

\* a control has changed and its change handler has not run yet: the event is
\* dispatched in the task that changed the control, nothing runs in between
ChangeEvent == [fn |-> "change"]

ChangeDispatched == call = ChangeEvent

InitPage ==
    /\ records = <<>>
    /\ sessions = <<>>
    /\ selectedRanges \in PageSelectionInputs
    /\ timestampGapThresholdSelect \in PageSelectInputs
    /\ call = NoCall
    /\ ret = null
    /\ NotStepping
    /\ NothingLoaded

\* the user picks a file in the file input
ChooseFile ==
    /\ ~ChangeDispatched
    /\ \E file \in UserFiles : fileInput' = file
    /\ UNCHANGED <<selectedRanges, timestampGapThresholdSelect, call, ret,
                   currentFitData, currentFileName, activityMap, currentSlowPeriods,
                   showPeriodsOnMapCheckbox, activitySummary, slowPeriodData,
                   activityDataElement, timeouts, pending>>
    /\ AnalysisUntouched

\* parseButton click, up to await file.arrayBuffer()
ClickParseButton ==
    /\ ~ChangeDispatched
    /\ fileInput # null
    /\ RoomForTask
    /\ activityDataElement' = "loading"
    /\ pending' = Append(pending, Suspended("parseButton", "arrayBuffer", fileInput))
    /\ UNCHANGED <<selectedRanges, timestampGapThresholdSelect, call, ret,
                   currentFitData, currentFileName, activityMap, currentSlowPeriods,
                   fileInput, showPeriodsOnMapCheckbox, activitySummary,
                   slowPeriodData, timeouts>>
    /\ AnalysisUntouched

\* loadExampleFileLink click: loadExampleFile up to await fetch(...)
ClickLoadExampleFile ==
    /\ ~ChangeDispatched
    /\ RoomForTask
    /\ activityDataElement' = "loading"
    /\ pending' = Append(pending, Suspended("loadExampleFile", "fetch", ExampleFile))
    /\ UNCHANGED <<selectedRanges, timestampGapThresholdSelect, call, ret,
                   currentFitData, currentFileName, activityMap, currentSlowPeriods,
                   fileInput, showPeriodsOnMapCheckbox, activitySummary,
                   slowPeriodData, timeouts>>
    /\ AnalysisUntouched

\* the fetch settles: on a response that is not ok the catch block shows the
\* error, otherwise loadExampleFile goes on to await response.arrayBuffer()
FetchSettles ==
    /\ ~ChangeDispatched
    /\ \E k \in 1..Len(pending) :
          /\ pending[k].at = "fetch"
          /\ \E ok \in BOOLEAN :
                IF ok
                THEN /\ pending' = [pending EXCEPT ![k].at = "arrayBuffer"]
                     /\ UNCHANGED activityDataElement
                ELSE /\ pending' = Without(pending, k)
                     /\ activityDataElement' = "error"
    /\ UNCHANGED <<selectedRanges, timestampGapThresholdSelect, call, ret,
                   currentFitData, currentFileName, activityMap, currentSlowPeriods,
                   fileInput, showPeriodsOnMapCheckbox, activitySummary,
                   slowPeriodData, timeouts>>
    /\ AnalysisUntouched

\* the bytes are there: decode, store the pair, displayActivityData,
\* initializeMap; loadExampleFile then clears the file input. An exception of
\* displayActivityData leaves what was stored and goes to the catch block.
ArrayBufferSettles ==
    /\ ~ChangeDispatched
    /\ \E k \in 1..Len(pending) :
          /\ pending[k].at = "arrayBuffer"
          /\ pending' = Without(pending, k)
          /\ \E file \in {pending[k].file} :
             \E displayed \in {displayActivityData(Stored(Page, file), file.fitData,
                                                   file.name)} :
                /\ call' = [fn |-> "displayActivityData"]
                /\ ret' = DisplayOutcome(displayed)
                /\ IF IsThrown(displayed)
                   THEN /\ SetPage(Caught(Stored(Page, file)))
                        /\ UNCHANGED fileInput
                   ELSE /\ \E initialised \in {initializeMap(displayed, file.fitData)} :
                              SetPage(initialised)
                        /\ fileInput' = IF pending[k].handler = "loadExampleFile"
                                        THEN null ELSE fileInput
    /\ UNCHANGED <<selectedRanges, timestampGapThresholdSelect, showPeriodsOnMapCheckbox>>
    /\ AnalysisUntouched

\* a range checkbox changes; its change handler runs next
ChangeThresholdCheckbox ==
    /\ ~ChangeDispatched
    /\ RoomForTask
    /\ \E ranges \in PageSelectionInputs \ {selectedRanges} : selectedRanges' = ranges
    /\ call' = ChangeEvent
    /\ ret' = null
    /\ UNCHANGED <<timestampGapThresholdSelect, pageVars>>
    /\ AnalysisUntouched

\* the gap threshold select changes; its change handler runs next
ChangeTimestampGapThreshold ==
    /\ ~ChangeDispatched
    /\ RoomForTask
    /\ \E value \in PageSelectInputs \ {timestampGapThresholdSelect} :
          timestampGapThresholdSelect' = value
    /\ call' = ChangeEvent
    /\ ret' = null
    /\ UNCHANGED <<selectedRanges, pageVars>>
    /\ AnalysisUntouched

\* either change handler: if (currentFitData && currentFileName)
\* displayActivityData(currentFitData, currentFileName); an exception ends the
\* handler with nothing changed
ChangeHandlerRuns ==
    /\ ChangeDispatched
    /\ IF currentFitData # null /\ currentFileName # null
       THEN \E displayed \in {displayActivityData(Page, currentFitData,
                                                  currentFileName)} :
               /\ call' = [fn |-> "displayActivityData"]
               /\ ret' = DisplayOutcome(displayed)
               /\ IF IsThrown(displayed)
                  THEN UNCHANGED <<currentFitData, currentFileName, activityMap,
                                   currentSlowPeriods, activitySummary, slowPeriodData,
                                   activityDataElement, timeouts>>
                  ELSE SetPage(displayed)
       ELSE /\ call' = NoCall
            /\ ret' = null
            /\ UNCHANGED <<currentFitData, currentFileName, activityMap,
                           currentSlowPeriods, activitySummary, slowPeriodData,
                           activityDataElement, timeouts>>
    /\ UNCHANGED <<selectedRanges, timestampGapThresholdSelect, showPeriodsOnMapCheckbox,
                   fileInput, pending>>
    /\ AnalysisUntouched

\* the overlay checkbox changes: if (activityMap && currentSlowPeriods)
\* updateMapOverlays()
ToggleShowPeriodsOnMap ==
    /\ ~ChangeDispatched
    /\ showPeriodsOnMapCheckbox' = ~showPeriodsOnMapCheckbox
    /\ UNCHANGED <<selectedRanges, timestampGapThresholdSelect, fileInput, pending,
                   call, ret>>
    /\ AnalysisUntouched
    /\ \E before \in {Page} : \E redrawn \in {updateMapOverlays(before)'} : SetPage(redrawn)

\* the oldest deferred callback runs: initializeCombinedMiniMaps(slowPeriods)
\* with the list its displayActivityData computed
TimeoutFires ==
    /\ ~ChangeDispatched
    /\ Len(timeouts) > 0
    /\ \E onInitialised \in {"throws", "replaces"} :
       \E rendered \in {initializeCombinedMiniMaps([Page EXCEPT !.timeouts = Tail(@)],
                                                   Head(timeouts), onInitialised)} :
          SetPage(rendered)
    /\ UNCHANGED <<selectedRanges, timestampGapThresholdSelect, fileInput, pending,
                   showPeriodsOnMapCheckbox, call, ret>>
    /\ AnalysisUntouched

NextPage ==
    \/ ChooseFile
    \/ ClickParseButton
    \/ ClickLoadExampleFile
    \/ FetchSettles
    \/ ArrayBufferSettles
    \/ ChangeThresholdCheckbox
    \/ ChangeTimestampGapThreshold
    \/ ChangeHandlerRuns
    \/ ToggleShowPeriodsOnMap
    \/ TimeoutFires

SpecPage == InitPage /\ [][NextPage]_vars


\* the periods of the stored file under the selection of the page
PeriodsOfStoredFile ==
    findSlowPeriodsWithRanges(currentFitData.recordMesgs, selectedRanges)

\* the last displayActivityData ran to its end
DisplayCompleted == Returned("displayActivityData") /\ ~IsThrown(ret)

\* C25: a deferred initializeCombinedMiniMaps never renders an outdated list over
\* a newer display: every mini map that shows something shows the period listed
\* at its index by the most recent displayActivityData.
C25_MiniMapsShowLatestAnalysis ==
    slowPeriodData # null =>
        \A index \in 1..Len(slowPeriodData.miniMaps) :
            slowPeriodData.miniMaps[index] # null =>
                slowPeriodData.miniMaps[index] = slowPeriodData.periods[index]

\* C29: after a completed displayActivityData the periods kept in
\* currentSlowPeriods are those computed from the file just displayed, unknown
\* start or end time included, and the overlays on the map are drawn from them.
C29_OverlayPeriodsOfDisplayedFile ==
    DisplayCompleted =>
        /\ currentSlowPeriods # null =>
               currentSlowPeriods = ArrayOf(PeriodsOfStoredFile)
        /\ activityMap # null =>
               \A k \in 1..Len(activityMap.overlays) :
                   \E j \in 1..Len(PeriodsOfStoredFile) :
                       activityMap.overlays[k] = PeriodsOfStoredFile[j]

StoredFile(file) == currentFitData = file.fitData /\ currentFileName = file.name

\* currentFitData and currentFileName are both null or both of one file
PairOfOneFile ==
    \/ currentFitData = null /\ currentFileName = null
    \/ \E file \in UserFiles \cup {ExampleFile} : StoredFile(file)

\* the analysis on the page, if there is one, is that of the stored pair
DisplayedIsStored ==
    activitySummary # null =>
        /\ activitySummary.title = currentFileName
        /\ slowPeriodData # null => slowPeriodData.periods = PeriodsOfStoredFile

\* C30: under every interleaving of the two loaders the stored pair is of one
\* file, and once no load is suspended the analysis displayed is that of the
\* stored pair.
C30_DisplayedAnalysisIsOfStoredPair ==
    /\ PairOfOneFile
    /\ (pending = <<>> /\ ~ChangeDispatched) => DisplayedIsStored

====
